---- MODULE Spec2Model ----
(***************************************************************************)
(* Model of better-rspec-mcp: the KnowledgeBase (content loader, search   *)
(* indices, query surface), the server's connect sequence and the request  *)
(* entry points that read the knowledge base.                              *)
(*                                                                         *)
(* A JavaScript Map is a sequence of records with pairwise distinct ids    *)
(* (insertion order is the sequence order).  An absent string (undefined   *)
(* front-matter value) is the empty string, which `||` treats the same     *)
(* way.  Every `await` on the file system is a suspension point and so an  *)
(* action boundary; the code between two suspension points is one action.  *)
(***************************************************************************)
EXTENDS Integers, Sequences, FiniteSets, TLC

\* ------------------------------------------------------------------ bounds
MaxFiles == 2      \* entries in the guidelines directory
MaxRecs  == 2      \* elements in examples.json
MaxCalls == 2      \* initialize() invocations on one KnowledgeBase
KBFiles  == 1      \* directory entries when invocations interleave
KBRecs   == 1      \* elements in examples.json when invocations interleave

Calls == 1..MaxCalls

\* --------------------------------------------------------------- sequences
Range(s) == {s[i] : i \in 1..Len(s)}

SeqsUpTo(S, n) == UNION {[1..k -> S] : k \in 0..n}

Distinct(s) == \A i, j \in 1..Len(s) : i # j => s[i] # s[j]

Take_all(s, n) == s

Take(s, n) == SubSeq(s, 1, IF n < Len(s) THEN n ELSE Len(s))

\* --------------------------------------------------------------- the types
Categories ==
    {"naming", "organization", "expectations", "data-setup",
     "mocking", "shared-examples", "performance", "configuration"}

\* ------------------------------------------------ Map<string, T> semantics
MapHas(m, id) == \E i \in 1..Len(m) : m[i].id = id

MapIndex(m, id) == CHOOSE i \in 1..Len(m) : m[i].id = id

MapSet(m, rec) ==
    IF MapHas(m, rec.id) THEN [m EXCEPT ![MapIndex(m, rec.id)] = rec]
    ELSE Append(m, rec)

RECURSIVE MapSetAll(_, _)
MapSetAll(m, recs) ==
    IF recs = <<>> THEN m ELSE MapSetAll(MapSet(m, Head(recs)), Tail(recs))

MapKeys(m) == {m[i].id : i \in 1..Len(m)}


\* ------------------------------------------------- guideline documents
\* A directory entry: name stands for the file name without its extension
\* (the id of the record), words spells that name as the words that "_"
\* joins, md says whether the extension is .md, readable is FALSE when
\* fs.readFile or gray-matter raises on it.  fm* are the front-matter values
\* (""/<<>> when the key is absent).  body is the text after the front
\* matter, a sequence of lines; a line is its count of leading '#' and the
\* text after them.
Line(h, t) == [hashes |-> h, text |-> t]

FileDescribe ==
    [name |-> "01_describe_and_naming", words |-> <<"01", "describe", "and", "naming">>,
     md |-> TRUE, readable |-> TRUE,
     fmTitle |-> "", fmCategory |-> "", fmTags |-> <<>>,
     fmExamples |-> <<>>, fmRelated |-> <<>>, fmPriority |-> "",
     body |-> <<Line(1, "Describe"), Line(0, "naming")>>]

FileMocks ==
    [name |-> "06_mocks_and_http_stubs", words |-> <<"06", "mocks", "and", "http", "stubs">>,
     md |-> TRUE, readable |-> TRUE,
     fmTitle |-> "Mocks", fmCategory |-> "data-setup", fmTags |-> <<"stub">>,
     fmExamples |-> <<"ex1", "ex9">>, fmRelated |-> <<"01_describe_and_naming", "gone">>,
     fmPriority |-> "high",
     body |-> <<Line(1, "Mocks"), Line(0, "stub")>>]

FileNotes ==
    [name |-> "notes", words |-> <<"notes">>,
     md |-> TRUE, readable |-> TRUE,
     fmTitle |-> "Notes", fmCategory |-> "misc", fmTags |-> <<"naming">>,
     fmExamples |-> <<>>, fmRelated |-> <<>>, fmPriority |-> "",
     body |-> <<Line(0, ""), Line(2, "Notes")>>]

FileNaming ==
    [name |-> "naming", words |-> <<"naming">>,
     md |-> TRUE, readable |-> TRUE,
     fmTitle |-> "naming", fmCategory |-> "naming", fmTags |-> <<>>,
     fmExamples |-> <<>>, fmRelated |-> <<>>, fmPriority |-> "",
     body |-> <<Line(1, "Names")>>]

FileBroken ==
    [name |-> "broken", words |-> <<"broken">>,
     md |-> TRUE, readable |-> FALSE,
     fmTitle |-> "", fmCategory |-> "", fmTags |-> <<>>,
     fmExamples |-> <<>>, fmRelated |-> <<>>, fmPriority |-> "",
     body |-> <<Line(0, "")>>]

FileLicense ==
    [name |-> "LICENSE", words |-> <<"LICENSE">>,
     md |-> FALSE, readable |-> TRUE,
     fmTitle |-> "", fmCategory |-> "", fmTags |-> <<>>,
     fmExamples |-> <<>>, fmRelated |-> <<>>, fmPriority |-> "",
     body |-> <<Line(0, "license")>>]

\* the order in which readdir lists the entries it finds
GuidelineFiles == <<FileDescribe, FileBroken, FileMocks, FileNotes, FileLicense>>

\* fs.readdir: the directory is missing/unreadable, or lists up to n of the
\* entries above
DirListings(n) ==
    {[kind |-> "missing", files |-> <<>>]} \cup
    {[kind |-> "ok", files |-> [i \in DOMAIN p |-> GuidelineFiles[p[i]]]] :
        p \in {q \in SeqsUpTo(1..Len(GuidelineFiles), n) :
                  \A i, j \in DOMAIN q : i < j => q[i] < q[j]}}

\* --------------------------------------------------- structured sources
\* An element of a parsed JSON array; isNull marks a null element, on which
\* `element.id` raises a TypeError.
ExampleElem(id, title, description, specType, scenario, tags) ==
    [isNull |-> FALSE, id |-> id, title |-> title, description |-> description,
     specType |-> specType, scenario |-> scenario, tags |-> tags]

Example1 == ExampleElem("ex1", "Model spec", "validation", "model", "validations", <<"model">>)
Example2 == ExampleElem("ex2", "Request spec", "Mocks", "request", "api", <<"api">>)
ExampleNull == [ExampleElem("", "", "", "", "", <<>>) EXCEPT !.isNull = TRUE]

AntiPatternElem(id, name, category, severity) ==
    [isNull |-> FALSE, id |-> id, name |-> name, category |-> category, severity |-> severity]

AntiPattern1 == AntiPatternElem("ap1", "Instance variables", "data-setup", "high")
AntiPatternNull == [AntiPatternElem("", "", "", "") EXCEPT !.isNull = TRUE]

ConfigurationElem(id, name, type) ==
    [isNull |-> FALSE, id |-> id, name |-> name, type |-> type]

Configuration1 == ConfigurationElem("cfg1", "Guardfile", "guardfile")
ConfigurationNull == [ConfigurationElem("", "", "") EXCEPT !.isNull = TRUE]

\* kind "missing": fs.readFile raises; "malformed": JSON.parse raises or the
\* parsed value is not iterable; "ok": the parsed array
\* parsed array: up to n pairwise different elements
JsonSources(elems, n) ==
    {[kind |-> k, elems |-> <<>>] : k \in {"missing", "malformed"}} \cup
    {[kind |-> "ok", elems |-> es] : es \in {s \in SeqsUpTo(elems, n) : Distinct(s)}}

\* the smaller sources: absent, not parseable, one record, one record
\* followed by a null element
AuxSources(rec, null) ==
    {[kind |-> k, elems |-> <<>>] : k \in {"missing", "malformed"}} \cup
    {[kind |-> "ok", elems |-> es] : es \in {<<rec>>, <<rec, null>>}}

SourceReadable(src) ==
    src.kind = "ok" /\ \A i \in 1..Len(src.elems) : ~src.elems[i].isNull

DirReadable(dir) ==
    dir.kind = "ok" /\ \A i \in 1..Len(dir.files) : dir.files[i].md => dir.files[i].readable

\* ------------------------------------------------------- loader helpers
\* the characters of the words that file names and keywords are made of
Spelling ==
    "describe"     :> <<"d", "e", "s", "c", "r", "i", "b", "e">> @@
    "naming"       :> <<"n", "a", "m", "i", "n", "g">> @@
    "context"      :> <<"c", "o", "n", "t", "e", "x", "t">> @@
    "organization" :> <<"o", "r", "g", "a", "n", "i", "z", "a", "t", "i", "o", "n">> @@
    "expect"       :> <<"e", "x", "p", "e", "c", "t">> @@
    "subject"      :> <<"s", "u", "b", "j", "e", "c", "t">> @@
    "let"          :> <<"l", "e", "t">> @@
    "factories"    :> <<"f", "a", "c", "t", "o", "r", "i", "e", "s">> @@
    "mock"         :> <<"m", "o", "c", "k">> @@
    "stub"         :> <<"s", "t", "u", "b">> @@
    "shared"       :> <<"s", "h", "a", "r", "e", "d">> @@
    "matcher"      :> <<"m", "a", "t", "c", "h", "e", "r">> @@
    "speed"        :> <<"s", "p", "e", "e", "d">> @@
    "tooling"      :> <<"t", "o", "o", "l", "i", "n", "g">> @@
    "config"       :> <<"c", "o", "n", "f", "i", "g">> @@
    "01"           :> <<"0", "1">> @@
    "06"           :> <<"0", "6">> @@
    "and"          :> <<"a", "n", "d">> @@
    "http"         :> <<"h", "t", "t", "p">> @@
    "mocks"        :> <<"m", "o", "c", "k", "s">> @@
    "stubs"        :> <<"s", "t", "u", "b", "s">> @@
    "notes"        :> <<"n", "o", "t", "e", "s">> @@
    "broken"       :> <<"b", "r", "o", "k", "e", "n">> @@
    "LICENSE"      :> <<"L", "I", "C", "E", "N", "S", "E">> @@
    "MOCKS"        :> <<"M", "O", "C", "K", "S">> @@
    "Config"       :> <<"C", "o", "n", "f", "i", "g">> @@
    "completed"    :> <<"c", "o", "m", "p", "l", "e", "t", "e", "d">> @@
    ".md"          :> <<".", "m", "d">>

Chars(w) == Spelling[w]

\* String.prototype.toLowerCase, per character
LowerCase ==
    "C" :> "c" @@ "E" :> "e" @@ "I" :> "i" @@ "K" :> "k" @@ "L" :> "l" @@
    "M" :> "m" @@ "N" :> "n" @@ "O" :> "o" @@ "S" :> "s" @@
    "H" :> "h" @@ "T" :> "t" @@ "U" :> "u" @@ "W" :> "w"

Lower(c) == IF c \in DOMAIN LowerCase THEN LowerCase[c] ELSE c

toLowerCase(text) == [i \in 1..Len(text) |-> Lower(text[i])]

RECURSIVE Join(_)
Join(words) ==
    IF words = <<>> THEN <<>>
    ELSE IF Len(words) = 1 THEN Chars(Head(words))
    ELSE Chars(Head(words)) \o <<"_">> \o Join(Tail(words))

\* the name of a directory entry, as readdir returns it
fileName(f) == Join(f.words) \o (IF f.md THEN Chars(".md") ELSE <<>>)

\* (p and t name the two values, each worked out once)
IsSubstring(part, text) ==
    \E p \in {part} : \E t \in {text} :
        \E i \in 1..(Len(t) - Len(p) + 1) : SubSeq(t, i, i + Len(p) - 1) = p

\* name.includes(kw)
Includes(name, kw) == IsSubstring(Chars(kw), name)

inferCategoryFromFilename_configFirst(filename) ==
    LET name == toLowerCase(filename)
    IN  IF Includes(name, "config") THEN "configuration"
        ELSE IF Includes(name, "describe") \/ Includes(name, "naming") THEN "naming"
        ELSE IF Includes(name, "context") \/ Includes(name, "organization") THEN "organization"
        ELSE IF Includes(name, "expect") \/ Includes(name, "subject") THEN "expectations"
        ELSE IF Includes(name, "let") \/ Includes(name, "factories") THEN "data-setup"
        ELSE IF Includes(name, "mock") \/ Includes(name, "stub") THEN "mocking"
        ELSE IF Includes(name, "shared") \/ Includes(name, "matcher") THEN "shared-examples"
        ELSE IF Includes(name, "speed") \/ Includes(name, "tooling") THEN "performance"
        ELSE "organization"

inferCategoryFromFilename(filename) ==
    LET name == toLowerCase(filename)
    IN  IF Includes(name, "describe") \/ Includes(name, "naming") THEN "naming"
        ELSE IF Includes(name, "context") \/ Includes(name, "organization") THEN "organization"
        ELSE IF Includes(name, "expect") \/ Includes(name, "subject") THEN "expectations"
        ELSE IF Includes(name, "let") \/ Includes(name, "factories") THEN "data-setup"
        ELSE IF Includes(name, "mock") \/ Includes(name, "stub") THEN "mocking"
        ELSE IF Includes(name, "shared") \/ Includes(name, "matcher") THEN "shared-examples"
        ELSE IF Includes(name, "speed") \/ Includes(name, "tooling") THEN "performance"
        ELSE IF Includes(name, "config") THEN "configuration"
        ELSE "organization"

\* content.split('\n')[0] with /^#+\s*/ removed
extractTitleFromContent(body) == Head(body).text

\* files.filter(f => f.endsWith('.md'))
RECURSIVE markdownFiles(_)
markdownFiles(files) ==
    IF files = <<>> THEN <<>>
    ELSE IF Head(files).md THEN <<Head(files)>> \o markdownFiles(Tail(files))
         ELSE markdownFiles(Tail(files))

\* the record built from one parsed document
guidelineCategory_keywordsFirst(f) ==
    IF inferCategoryFromFilename(fileName(f)) # "organization"
    THEN inferCategoryFromFilename(fileName(f))
    ELSE IF f.fmCategory # "" THEN f.fmCategory ELSE "organization"

guidelineCategory(f) ==
    IF f.fmCategory # "" THEN f.fmCategory ELSE inferCategoryFromFilename(fileName(f))

guidelineOf(f) ==
    [id                |-> f.name,
     title             |-> IF f.fmTitle # "" THEN f.fmTitle ELSE extractTitleFromContent(f.body),
     category          |-> guidelineCategory(f),
     content           |-> f.body,
     examples          |-> f.fmExamples,
     tags              |-> f.fmTags,
     relatedGuidelines |-> f.fmRelated,
     priority          |-> IF f.fmPriority # "" THEN f.fmPriority ELSE "medium"]

\* for (const element of data) map.set(element.id, element): the map reached
\* and whether the iteration raised
RECURSIVE LoadElems(_, _)
LoadElems(m, elems) ==
    IF elems = <<>> THEN [map |-> m, threw |-> FALSE]
    ELSE IF Head(elems).isNull THEN [map |-> m, threw |-> TRUE]
         ELSE LoadElems(MapSet(m, Head(elems)), Tail(elems))

defaultExamples ==
    <<ExampleElem("model-basic", "Basic Model Spec", "Simple model validation spec",
                  "model", "Testing model validations", <<"model", "validation", "subject">>)>>

defaultAntiPatterns ==
    <<AntiPatternElem("should-syntax", "Using should syntax", "expectations", "medium")>>

defaultConfigurations ==
    <<ConfigurationElem("basic-spec-helper", "Basic spec_helper.rb", "spec_helper")>>

\* variant: the fallback adds nothing
initializeDefaultExamples_empty(m) == m

initializeDefaultExamples(m) == MapSetAll(m, defaultExamples)

initializeDefaultAntiPatterns(m) == MapSetAll(m, defaultAntiPatterns)

initializeDefaultConfigurations(m) == MapSetAll(m, defaultConfigurations)

\* the body of loadExamples after its readFile settles: the examples map left
loadExamples(m, src) ==
    IF src.kind # "ok" THEN initializeDefaultExamples(m)
    ELSE LET r == LoadElems(m, src.elems)
         IN IF r.threw THEN initializeDefaultExamples(r.map) ELSE r.map

\* variant: the source is ignored and the defaults are always used
loadAntiPatterns_alwaysDefault(m, src) == initializeDefaultAntiPatterns(m)

loadAntiPatterns(m, src) ==
    IF src.kind # "ok" THEN initializeDefaultAntiPatterns(m)
    ELSE LET r == LoadElems(m, src.elems)
         IN IF r.threw THEN initializeDefaultAntiPatterns(r.map) ELSE r.map

loadConfigurations(m, src) ==
    IF src.kind # "ok" THEN initializeDefaultConfigurations(m)
    ELSE LET r == LoadElems(m, src.elems)
         IN IF r.threw THEN initializeDefaultConfigurations(r.map) ELSE r.map

\* a Fuse index over the values of a map; built = FALSE is `undefined`
NoIndex == [built |-> FALSE, docs |-> <<>>]

\* variant: an index that is constructed over no documents
NewFuse_overNothing(docs) == [built |-> TRUE, docs |-> <<>>]

NewFuse(docs) == [built |-> TRUE, docs |-> docs]

\* ---------------------------------------------------------------- state
VARIABLES
    dirSrc,                \* data/guidelines on disk
    examplesSrc,           \* data/examples.json on disk
    antiPatternsSrc,       \* data/antipatterns.json on disk
    configurationsSrc,     \* data/configurations.json on disk
    guidelines,            \* KnowledgeBase.guidelines
    examples,              \* KnowledgeBase.examples
    antiPatterns,          \* KnowledgeBase.antiPatterns
    configurations,        \* KnowledgeBase.configurations
    guidelineSearchIndex,  \* KnowledgeBase.guidelineSearchIndex
    exampleSearchIndex,    \* KnowledgeBase.exampleSearchIndex
    initialized,           \* KnowledgeBase.initialized
    pc,                    \* where each initialize() invocation stands
    idx,                   \* its position in the loop over markdownFiles
    loaderRuns,            \* history: how often each loader / the index build was entered
    reads,                 \* history: file-system reads issued
    fuseError,             \* history: which Fuse construction raised, "none" if neither
    mainPc,                \* main(): "start", "connecting", "serving", "exited"
    transportConnected,    \* server.connect(transport) has been called
    exitCode,              \* argument of process.exit, -1 while running
    lastRequest,           \* the request last dispatched by the server
    lastResponse,          \* what its handler returned or raised
    lastQuery,             \* the store query last made by a direct caller
    lastResult             \* what it returned

envVars    == <<dirSrc, examplesSrc, antiPatternsSrc, configurationsSrc>>
mapVars    == <<guidelines, examples, antiPatterns, configurations>>
storeVars  == <<guidelines, examples, antiPatterns, configurations,
                guidelineSearchIndex, exampleSearchIndex, initialized>>
callVars   == <<pc, idx>>
histVars   == <<loaderRuns, reads, fuseError>>
serverVars == <<mainPc, transportConnected, exitCode, lastRequest, lastResponse>>
queryVars  == <<lastQuery, lastResult>>
vars       == <<envVars, storeVars, callVars, histVars, serverVars, queryVars>>

Loaders == {"loadGuidelines", "loadExamples", "loadAntiPatterns",
            "loadConfigurations", "buildSearchIndices"}

NoRequest  == [op |-> "none", arg |-> "", category |-> "", param |-> <<>>]
NoResponse == [status |-> "none", text |-> "", ids |-> <<>>]
NoQuery    == [op |-> "none", id |-> ""]
NoResult   == <<>>

InitStore ==
    /\ guidelines = <<>>
    /\ examples = <<>>
    /\ antiPatterns = <<>>
    /\ configurations = <<>>
    /\ guidelineSearchIndex = NoIndex
    /\ exampleSearchIndex = NoIndex
    /\ initialized = FALSE
    /\ pc = [c \in Calls |-> "start"]
    /\ idx = [c \in Calls |-> 0]
    /\ loaderRuns = [l \in Loaders |-> 0]
    /\ reads = 0
    /\ fuseError = "none"
    /\ mainPc = "start"
    /\ transportConnected = FALSE
    /\ exitCode = -1
    /\ lastRequest = NoRequest
    /\ lastResponse = NoResponse
    /\ lastQuery = NoQuery
    /\ lastResult = NoResult

Init ==
    /\ dirSrc \in DirListings(MaxFiles)
    /\ examplesSrc \in JsonSources({Example1, Example2, ExampleNull}, MaxRecs)
    /\ antiPatternsSrc \in AuxSources(AntiPattern1, AntiPatternNull)
    /\ configurationsSrc \in AuxSources(Configuration1, ConfigurationNull)
    /\ InitStore

\* fewer sources where the invocations or the queries multiply the states
InitKB ==
    /\ dirSrc \in DirListings(KBFiles)
    /\ examplesSrc \in JsonSources({Example1, Example2, ExampleNull}, KBRecs)
    /\ antiPatternsSrc \in {a \in AuxSources(AntiPattern1, AntiPatternNull) :
                               a.kind = "missing" \/ Len(a.elems) = 1}
    /\ configurationsSrc \in {a \in AuxSources(Configuration1, ConfigurationNull) :
                                 a.kind = "missing" \/ Len(a.elems) = 1}
    /\ InitStore

\* --------------------------------------------- KnowledgeBase.initialize
\* A loader is entered: it runs up to its first await, which issues one read
EnterLoader(c, loader) ==
    /\ pc' = [pc EXCEPT ![c] = loader]
    /\ loaderRuns' = [loaderRuns EXCEPT ![loader] = @ + 1]
    /\ reads' = reads + 1

\* variant: no guard on the flag
initializeEntry_noGuard(c) ==
    /\ pc[c] = "start"
    /\ UNCHANGED fuseError
    /\ EnterLoader(c, "loadGuidelines")
    /\ UNCHANGED <<idx, storeVars>>

\* initialize() is called: the guard on the flag, then loadGuidelines up to
\* `await fs.readdir`
initializeEntry(c) ==
    /\ pc[c] = "start"
    /\ UNCHANGED fuseError
    /\ IF initialized
       THEN /\ pc' = [pc EXCEPT ![c] = "returned"]
            /\ UNCHANGED <<loaderRuns, reads>>
       ELSE EnterLoader(c, "loadGuidelines")
    /\ UNCHANGED <<idx, storeVars>>

\* variant: the catch substitutes a built-in guideline
loadGuidelinesCatch_default(m) ==
    MapSet(m, [id |-> "default", title |-> "Default", category |-> "organization",
               content |-> <<Line(0, "")>>, examples |-> <<>>, tags |-> <<>>,
               relatedGuidelines |-> <<>>, priority |-> "medium"])

\* the catch of loadGuidelines: log, "continue with empty guidelines"; the
\* map is left as it stands
loadGuidelinesCatch(m) == m

\* readdir settles: on a failure the catch ends loadGuidelines; an empty
\* list of .md files ends the loop at once; loadExamples follows
resumeReaddir(c) ==
    /\ UNCHANGED fuseError
    /\ pc[c] = "loadGuidelines"
    /\ IF dirSrc.kind = "ok" /\ markdownFiles(dirSrc.files) # <<>>
       THEN /\ pc' = [pc EXCEPT ![c] = "readFile"]
            /\ idx' = [idx EXCEPT ![c] = 1]
            /\ reads' = reads + 1
            /\ UNCHANGED <<loaderRuns, guidelines>>
       ELSE /\ EnterLoader(c, "loadExamples")
            /\ guidelines' = IF dirSrc.kind = "ok" THEN guidelines
                              ELSE loadGuidelinesCatch(guidelines)
            /\ UNCHANGED idx
    /\ UNCHANGED <<examples, antiPatterns, configurations,
                   guidelineSearchIndex, exampleSearchIndex, initialized>>

\* variant: a document that cannot be read is skipped and the loop goes on
resumeReadFile_skipsBroken(c) ==
    /\ UNCHANGED fuseError
    /\ pc[c] = "readFile"
    /\ LET files == markdownFiles(dirSrc.files)
           f     == files[idx[c]]
       IN /\ guidelines' = IF f.readable THEN MapSet(guidelines, guidelineOf(f))
                           ELSE guidelines
          /\ IF idx[c] < Len(files)
             THEN /\ idx' = [idx EXCEPT ![c] = @ + 1]
                  /\ reads' = reads + 1
                  /\ UNCHANGED <<pc, loaderRuns>>
             ELSE /\ EnterLoader(c, "loadExamples")
                  /\ idx' = [idx EXCEPT ![c] = 0]
    /\ UNCHANGED <<examples, antiPatterns, configurations,
                   guidelineSearchIndex, exampleSearchIndex, initialized>>

\* readFile of one document settles: parse, build the record, store it, go
\* on with the next file; a failure ends loadGuidelines through its catch
resumeReadFile(c) ==
    /\ UNCHANGED fuseError
    /\ pc[c] = "readFile"
    /\ LET files == markdownFiles(dirSrc.files)
           f     == files[idx[c]]
       IN IF ~f.readable
          THEN /\ EnterLoader(c, "loadExamples")
               /\ idx' = [idx EXCEPT ![c] = 0]
               /\ guidelines' = loadGuidelinesCatch(guidelines)
          ELSE /\ guidelines' = MapSet(guidelines, guidelineOf(f))
               /\ IF idx[c] < Len(files)
                  THEN /\ idx' = [idx EXCEPT ![c] = @ + 1]
                       /\ reads' = reads + 1
                       /\ UNCHANGED <<pc, loaderRuns>>
                  ELSE /\ EnterLoader(c, "loadExamples")
                       /\ idx' = [idx EXCEPT ![c] = 0]
    /\ UNCHANGED <<examples, antiPatterns, configurations,
                   guidelineSearchIndex, exampleSearchIndex, initialized>>

resumeExamples(c) ==
    /\ UNCHANGED fuseError
    /\ pc[c] = "loadExamples"
    /\ examples' = loadExamples(examples, examplesSrc)
    /\ EnterLoader(c, "loadAntiPatterns")
    /\ UNCHANGED <<idx, guidelines, antiPatterns, configurations,
                   guidelineSearchIndex, exampleSearchIndex, initialized>>

resumeAntiPatterns(c) ==
    /\ UNCHANGED fuseError
    /\ pc[c] = "loadAntiPatterns"
    /\ antiPatterns' = loadAntiPatterns(antiPatterns, antiPatternsSrc)
    /\ EnterLoader(c, "loadConfigurations")
    /\ UNCHANGED <<idx, guidelines, examples, configurations,
                   guidelineSearchIndex, exampleSearchIndex, initialized>>

\* after loadConfigurations the caller resumes in a later microtask
resumeConfigurations(c) ==
    /\ UNCHANGED fuseError
    /\ pc[c] = "loadConfigurations"
    /\ configurations' = loadConfigurations(configurations, configurationsSrc)
    /\ pc' = [pc EXCEPT ![c] = "buildSearchIndices"]
    /\ UNCHANGED <<idx, loaderRuns, reads, guidelines, examples, antiPatterns,
                   guidelineSearchIndex, exampleSearchIndex, initialized>>

\* buildSearchIndices and the flag.  Either Fuse construction may raise
\* (fails names it): what was assigned before stays and initialize rethrows
buildSearchIndices(c, fails) ==
    /\ loaderRuns' = [loaderRuns EXCEPT !["buildSearchIndices"] = @ + 1]
    /\ fuseError' = IF fails = "none" THEN fuseError ELSE fails
    /\ guidelineSearchIndex' =
          IF fails = "guideline" THEN guidelineSearchIndex ELSE NewFuse(guidelines)
    /\ exampleSearchIndex' =
          IF fails = "none" THEN NewFuse(examples) ELSE exampleSearchIndex
    /\ initialized' = IF fails = "none" THEN TRUE ELSE initialized
    /\ pc' = [pc EXCEPT ![c] = IF fails = "none" THEN "done" ELSE "thrown"]

resumeBuild(c) ==
    /\ pc[c] = "buildSearchIndices"
    /\ \E fails \in {"none", "guideline", "example"} : buildSearchIndices(c, fails)
    /\ UNCHANGED <<idx, reads, mapVars>>

\* ------------------------------------------------ KnowledgeBase queries
\* variant: a lookup that falls back to the first record
MapGet_firstRecord(m, id) ==
    IF MapHas(m, id) THEN <<m[MapIndex(m, id)]>>
    ELSE IF m # <<>> THEN <<m[1]>> ELSE <<>>

\* Map.get: the empty sequence is `undefined`, otherwise the one record
MapGet(m, id) == IF MapHas(m, id) THEN <<m[MapIndex(m, id)]>> ELSE <<>>

getGuideline(id) == MapGet(guidelines, id)

getExample(id) == MapGet(examples, id)

getAntiPattern(id) == MapGet(antiPatterns, id)

getConfiguration(id) == MapGet(configurations, id)

getAllGuidelines == guidelines

getAllExamples == examples

getAllAntiPatterns == antiPatterns

getAllConfigurations == configurations

\* Array.from(map.values()).filter(r => r[field] === value)
SelectSeq2_newestFirst(s, field, value) ==
    LET hits == {i \in 1..Len(s) : s[i][field] = value}
    IN [k \in 1..Cardinality(hits) |->
          s[CHOOSE i \in hits : Cardinality({j \in hits : j > i}) = k - 1]]

RECURSIVE SelectSeq2(_, _, _)
SelectSeq2(s, field, value) ==
    IF s = <<>> THEN <<>>
    ELSE IF Head(s)[field] = value
         THEN <<Head(s)>> \o SelectSeq2(Tail(s), field, value)
         ELSE SelectSeq2(Tail(s), field, value)

getGuidelinesByCategory(category) == SelectSeq2(guidelines, "category", category)

getExamplesByType(specType) == SelectSeq2(examples, "specType", specType)

getConfigurationsByType(type) == SelectSeq2(configurations, "type", type)

\* Fuse search, abstracted to whole-term hits: a field is hit when it holds
\* the query term; the relevance of a document is the sum of the weights
\* (in tenths) of the fields hit, and a document with no field hit does not
\* clear the threshold.  The empty pattern matches nothing.
\* keys of the two indices with their weights, in tenths
guidelineKeys_tagsFirst == [title |-> 2, content |-> 3, tags |-> 4, category |-> 1]

guidelineKeys == [title |-> 4, content |-> 3, tags |-> 2, category |-> 1]

exampleKeys == [title |-> 3, description |-> 3, scenario |-> 2, tags |-> 2]

guidelineRelevance(g, q) ==
    (IF g.title = q THEN guidelineKeys.title ELSE 0)
    + (IF \E i \in 1..Len(g.content) : g.content[i].text = q THEN guidelineKeys.content ELSE 0)
    + (IF q \in Range(g.tags) THEN guidelineKeys.tags ELSE 0)
    + (IF g.category = q THEN guidelineKeys.category ELSE 0)

exampleRelevance(e, q) ==
    (IF e.title = q THEN exampleKeys.title ELSE 0)
    + (IF e.description = q THEN exampleKeys.description ELSE 0)
    + (IF e.scenario = q THEN exampleKeys.scenario ELSE 0)
    + (IF q \in Range(e.tags) THEN exampleKeys.tags ELSE 0)

\* the documents of relevance > 0, best first, ties in index order
Ranked(docs, rel) ==
    LET hits == {i \in 1..Len(docs) : rel[i] > 0}
        Before(i, j) == rel[i] > rel[j] \/ (rel[i] = rel[j] /\ i < j)
        Pos(i) == Cardinality({j \in hits : Before(j, i)}) + 1
    IN [k \in 1..Cardinality(hits) |-> docs[CHOOSE i \in hits : Pos(i) = k]]

FuseSearchGuidelines(docs, q) ==
    IF q = "" THEN <<>>
    ELSE Ranked(docs, [i \in 1..Len(docs) |-> guidelineRelevance(docs[i], q)])

FuseSearchExamples(docs, q) ==
    IF q = "" THEN <<>>
    ELSE Ranked(docs, [i \in 1..Len(docs) |-> exampleRelevance(docs[i], q)])

\* KnowledgeBase.searchGuidelines(options) reads options.query and
\* options.limit only
searchGuidelines_whenEmptyAll(query, limit) ==
    IF ~guidelineSearchIndex.built THEN <<>>
    ELSE IF query = "" THEN Take(guidelineSearchIndex.docs, limit)
    ELSE Take(FuseSearchGuidelines(guidelineSearchIndex.docs, query), limit)

searchGuidelines_scansMap(query, limit) ==
    IF ~guidelineSearchIndex.built THEN Take(FuseSearchGuidelines(guidelines, query), limit)
    ELSE Take(FuseSearchGuidelines(guidelineSearchIndex.docs, query), limit)

searchGuidelines(query, limit) ==
    IF ~guidelineSearchIndex.built THEN <<>>
    ELSE Take(FuseSearchGuidelines(guidelineSearchIndex.docs, query), limit)

\* variant: a search that fills the result up to the limit with other records
searchExamples_padsToLimit(query, limit) ==
    IF ~exampleSearchIndex.built THEN <<>>
    ELSE Take(FuseSearchExamples(exampleSearchIndex.docs, query)
              \o exampleSearchIndex.docs, limit)

searchExamples(query, limit) ==
    IF ~exampleSearchIndex.built THEN <<>>
    ELSE Take(FuseSearchExamples(exampleSearchIndex.docs, query), limit)

Ids(recs) == [i \in 1..Len(recs) |-> recs[i].id]

\* --------------------------------------------------- request handlers
\* A response is what the handler returned (status "result") or the error
\* it raised (status "raised"); text is the leading message, ids the
\* records it renders.
Result(text, ids) == [status |-> "result", text |-> text, ids |-> ids]

Raised(text) == [status |-> "raised", text |-> text, ids |-> <<>>]

\* the ids of a list that are keys of map m, in the order of the list
Resolving(m, ids) ==
    LET Found(id) == MapHas(m, id)
    IN  SelectSeq(ids, Found)

\* Array.from(new Set(ids)): first occurrences, in order
RECURSIVE Unique(_)
Unique(ids) ==
    IF ids = <<>> THEN <<>>
    ELSE LET Other(id) == id # Head(ids)
         IN  <<Head(ids)>> \o Unique(SelectSeq(Tail(ids), Other))

\* variant: every referenced example is listed, resolved or not
renderExamples_listsAll(guideline) == Take(guideline.examples, 2)

\* the examples rendered under one guideline: of its first two example ids,
\* those that getExample finds
renderExamples(guideline) == Resolving(examples, Take(guideline.examples, 2))

\* the related guidelines rendered: of the first three distinct related ids
\* of all filtered results, those that getGuideline finds
RECURSIVE relatedIds(_)
relatedIds(results) ==
    IF results = <<>> THEN <<>>
    ELSE Head(results).relatedGuidelines \o relatedIds(Tail(results))

renderRelated(filteredResults) ==
    Resolving(guidelines, Take(Unique(relatedIds(filteredResults)), 3))

RECURSIVE renderAllExamples(_)
renderAllExamples(shown) ==
    IF shown = <<>> THEN <<>>
    ELSE renderExamples(Head(shown)) \o renderAllExamples(Tail(shown))

\* the guidance document: the guidelines it renders (ids), the examples
\* rendered under them and the related guidelines listed at its end
Guidance(shown, filteredResults) ==
    [status |-> "result", text |-> "Better Specs Guidance", ids |-> Ids(shown),
     examples |-> renderAllExamples(shown), related |-> renderRelated(filteredResults)]

\* variant: the category is looked for among the ten best matches of the topic
getRSpecGuidance_filtersTenBest(topic, category) ==
    IF category # "" /\ category \notin Categories THEN Raised("ZodError")
    ELSE LET searchResults   == searchGuidelines(topic, 10)
             filteredResults == IF category # ""
                                THEN SelectSeq2(searchResults, "category", category)
                                ELSE searchResults
         IN IF filteredResults = <<>>
            THEN Result("No specific guidance found", <<>>)
            ELSE Guidance(Take(filteredResults, 3), filteredResults)

\* GetGuidanceInputSchema.parse: category is optional, of the closed set;
\* includeExamples is left at its default, true
getRSpecGuidance(topic, category) ==
    IF category # "" /\ category \notin Categories THEN Raised("ZodError")
    ELSE LET searchResults   == searchGuidelines(topic, 5)
             filteredResults == IF category # ""
                                THEN SelectSeq2(searchResults, "category", category)
                                ELSE searchResults
         IN IF filteredResults = <<>>
            THEN Result("No specific guidance found", <<>>)
            ELSE Guidance(Take(filteredResults, 3), filteredResults)

searchRSpecGuidelines(query, limit) ==
    LET searchResults == searchGuidelines(query, limit)
    IN IF searchResults = <<>>
       THEN Result("No guidelines found matching", <<>>)
       ELSE Result("Search Results", Ids(searchResults))

\* variant: an unknown category raises
getCategoryOverview_raises(category) ==
    LET found == getGuidelinesByCategory(category)
    IN IF found = <<>>
       THEN Raised("No guidelines found for category")
       ELSE Result("Guidelines", Ids(found))

getCategoryOverview(category) ==
    LET found == getGuidelinesByCategory(category)
    IN IF found = <<>>
       THEN Result("No guidelines found for category", <<>>)
       ELSE Result("Guidelines", Ids(found))

\* RSpecResources: a URI is its base and, for "base/param", the parameter
getGuidelineById(id) ==
    IF getGuideline(id) = <<>> THEN Raised("Guideline not found")
    ELSE Result("guideline", Ids(getGuideline(id)))

resourceExamplesByType(type) == Result("examples by type", Ids(getExamplesByType(type)))

\* variant: a URI that no case names is answered with the guidelines
readResource_unknownAsGuidelines(base, param) ==
    IF param = <<>>
    THEN CASE base = "examples"       -> Result("examples", Ids(getAllExamples))
           [] base = "antipatterns"   -> Result("antiPatterns", Ids(getAllAntiPatterns))
           [] base = "configurations" -> Result("configurations", Ids(getAllConfigurations))
           [] base = "cheatsheet"     -> Result("cheatsheet", <<>>)
           [] OTHER                   -> Result("guidelines", Ids(getAllGuidelines))
    ELSE CASE base = "guidelines" -> getGuidelineById(param[1])
           [] base = "examples"   -> resourceExamplesByType(param[1])
           [] OTHER               -> Result("guidelines", Ids(getAllGuidelines))

readResource(base, param) ==
    IF param = <<>>
    THEN CASE base = "guidelines"     -> Result("guidelines", Ids(getAllGuidelines))
           [] base = "examples"       -> Result("examples", Ids(getAllExamples))
           [] base = "antipatterns"   -> Result("antiPatterns", Ids(getAllAntiPatterns))
           [] base = "configurations" -> Result("configurations", Ids(getAllConfigurations))
           [] base = "cheatsheet"     -> Result("cheatsheet", <<>>)
           [] OTHER                   -> Raised("Unknown resource URI")
    ELSE CASE base = "guidelines" -> getGuidelineById(param[1])
           [] base = "examples"   -> resourceExamplesByType(param[1])
           [] OTHER               -> Raised("Unknown resource URI")

\* CallToolRequest / ReadResourceRequest routing of setupHandlers
Request(op, arg, category, param) ==
    [op |-> op, arg |-> arg, category |-> category, param |-> param]

Requests ==
    {Request("get_rspec_guidance", t, "", <<>>) : t \in {"Mocks", "zzz"}}
    \cup {Request("get_rspec_guidance", "Mocks", "mocking", <<>>)}
    \cup {Request("search_rspec_guidelines", q, "", <<>>) : q \in {"Mocks", "zzz"}}
    \cup {Request("get_category_overview", "", c, <<>>) : c \in {"naming", "nosuch"}}
    \cup {Request("read", b, "", <<>>) : b \in {"guidelines", "other"}}
    \cup {Request("read", "guidelines", "", <<id>>) : id \in {"notes", "nosuch"}}
    \cup {Request("read", "examples", "", <<t>>) : t \in {"model", "nosuch"}}

Dispatch(req) ==
    CASE req.op = "get_rspec_guidance"      -> getRSpecGuidance(req.arg, req.category)
      [] req.op = "search_rspec_guidelines" -> searchRSpecGuidelines(req.arg, 5)
      [] req.op = "get_category_overview"   -> getCategoryOverview(req.category)
      [] req.op = "read"                    -> readResource(req.arg, req.param)
      [] OTHER                              -> Raised("Unknown tool")

\* ------------------------------------------------------------ the server
\* variant: connect does not await initialize
awaitInitialize_notAwaited == TRUE

\* `await this.knowledgeBase.initialize()` in connect: the call has settled
awaitInitialize == pc[1] \in {"done", "returned", "thrown"}

\* main(): construct the server and the transport, call connect, which
\* calls initialize (invocation 1) and suspends on it
MainStart ==
    /\ mainPc = "start"
    /\ initializeEntry(1)
    /\ mainPc' = "connecting"
    /\ UNCHANGED <<transportConnected, exitCode, lastRequest, lastResponse>>
    /\ UNCHANGED <<envVars, queryVars>>

\* variant: the error of initialize is swallowed and the transport connected
ConnectResume_swallowsError ==
    /\ mainPc = "connecting"
    /\ awaitInitialize
    /\ mainPc' = "serving"
    /\ transportConnected' = TRUE
    /\ UNCHANGED <<exitCode, lastRequest, lastResponse>>
    /\ UNCHANGED <<envVars, storeVars, callVars, histVars, queryVars>>

\* connect resumes: server.connect(transport), or the error of initialize
\* reaches the catch of main, which exits with code 1
ConnectResume ==
    /\ mainPc = "connecting"
    /\ awaitInitialize
    /\ IF pc[1] = "thrown"
       THEN /\ mainPc' = "exited"
            /\ exitCode' = 1
            /\ UNCHANGED transportConnected
       ELSE /\ mainPc' = "serving"
            /\ transportConnected' = TRUE
            /\ UNCHANGED exitCode
    /\ UNCHANGED <<lastRequest, lastResponse>>
    /\ UNCHANGED <<envVars, storeVars, callVars, histVars, queryVars>>

\* a request arrives over the connected transport and is dispatched
HandleRequest ==
    /\ transportConnected
    /\ mainPc = "serving"
    /\ \E req \in Requests :
          /\ lastRequest' = req
          /\ lastResponse' = Dispatch(req)
    /\ UNCHANGED <<mainPc, transportConnected, exitCode>>
    /\ UNCHANGED <<envVars, storeVars, callVars, histVars, queryVars>>

\* ------------------------------------------- steps of initialize()
Frame == UNCHANGED <<envVars, serverVars, queryVars>>

ResumeReaddir == \E c \in Calls : resumeReaddir(c) /\ Frame

ResumeReadFile == \E c \in Calls : resumeReadFile(c) /\ Frame

ResumeExamples == \E c \in Calls : resumeExamples(c) /\ Frame

ResumeAntiPatterns == \E c \in Calls : resumeAntiPatterns(c) /\ Frame

ResumeConfigurations == \E c \in Calls : resumeConfigurations(c) /\ Frame

ResumeBuild == \E c \in Calls : resumeBuild(c) /\ Frame

InitializeSteps ==
    \/ ResumeReaddir
    \/ ResumeReadFile
    \/ ResumeExamples
    \/ ResumeAntiPatterns
    \/ ResumeConfigurations
    \/ ResumeBuild

\* ------------------------------------ direct callers of a KnowledgeBase
CallInitialize == \E c \in Calls : initializeEntry(c) /\ Frame

\* the owner of a store calls initialize() once
StoreInitialize == initializeEntry(1) /\ Frame

Queries ==
    {[op |-> "getGuideline", id |-> i] : i \in {"notes", "nosuch"}}
    \cup {[op |-> "getExample", id |-> i] : i \in {"ex1", "nosuch"}}
    \cup {[op |-> "getAntiPattern", id |-> i] : i \in {"ap1", "nosuch"}}
    \cup {[op |-> "getConfiguration", id |-> i] : i \in {"cfg1", "nosuch"}}

Answer(q) ==
    CASE q.op = "getGuideline"     -> getGuideline(q.id)
      [] q.op = "getExample"       -> getExample(q.id)
      [] q.op = "getAntiPattern"   -> getAntiPattern(q.id)
      [] q.op = "getConfiguration" -> getConfiguration(q.id)

Query ==
    /\ \E q \in Queries :
          /\ lastQuery' = q
          /\ lastResult' = Answer(q)
    /\ UNCHANGED <<envVars, storeVars, callVars, histVars, serverVars>>

\* ------------------------------------------------------ specifications
\* the program: main, connect, initialize, then requests
Next ==
    \/ MainStart
    \/ InitializeSteps
    \/ ConnectResume
    \/ HandleRequest

Spec == Init /\ [][Next]_vars

\* one KnowledgeBase used by arbitrary callers: initialize() may be called
\* MaxCalls times, also while an earlier call is suspended
NextKB ==
    \/ CallInitialize
    \/ InitializeSteps

SpecKB == InitKB /\ [][NextKB]_vars

\* one KnowledgeBase whose owner calls initialize() once and may query the
\* store at any time, also before and while it loads
NextStore ==
    \/ StoreInitialize
    \/ InitializeSteps
    \/ Query

SpecStore == InitKB /\ [][NextStore]_vars

\* ------------------------------------------- every query of the store
\* SearchOptionsSchema: limit is between 1 and MaxLimit
MaxLimit == 50

\* the directory of a store that is searched: up to n documents in any order
SearchFiles == {FileDescribe, FileNotes, FileNaming}

SearchListings(n) ==
    {[kind |-> "missing", files |-> <<>>]} \cup
    {[kind |-> "ok", files |-> p] : p \in {q \in SeqsUpTo(SearchFiles, n) : Distinct(q)}}

InitQuery ==
    /\ dirSrc \in SearchListings(MaxFiles)
    /\ examplesSrc \in JsonSources({Example1, Example2, ExampleNull}, MaxRecs)
    /\ antiPatternsSrc = [kind |-> "ok", elems |-> <<AntiPattern1>>]
    /\ configurationsSrc = [kind |-> "ok", elems |-> <<Configuration1, ConfigurationNull>>]
    /\ InitStore

\* a call of a query operation: op(arg) or op({query: arg, categories, limit})
StoreQuery(op, arg, limit, categories) ==
    [op |-> op, id |-> arg, limit |-> limit, categories |-> categories]

StoreQueries ==
    {StoreQuery("searchGuidelines", "naming", n, <<>>) : n \in {1, MaxLimit}}
    \cup {StoreQuery("searchGuidelines", "naming", MaxLimit, <<"naming">>)}
    \cup {StoreQuery("searchGuidelines", "", MaxLimit, <<>>)}
    \cup {StoreQuery("searchExamples", "model", n, <<>>) : n \in {1, MaxLimit}}
    \cup {StoreQuery("searchExamples", q, MaxLimit, <<>>) : q \in {"", "zzz"}}
    \cup {StoreQuery("getGuidelinesByCategory", c, 0, <<>>) : c \in {"naming", "nosuch"}}
    \cup {StoreQuery("getExamplesByType", t, 0, <<>>) : t \in {"model", "nosuch"}}
    \cup {StoreQuery("getConfigurationsByType", "guardfile", 0, <<>>)}
    \cup {StoreQuery("getGuideline", "notes", 0, <<>>), StoreQuery("getExample", "ex1", 0, <<>>)}
    \cup {StoreQuery(op, "", 0, <<>>) :
             op \in {"getAllGuidelines", "getAllExamples", "getAllAntiPatterns", "getAllConfigurations"}}

\* what the operation returns, as a sequence of records
returnOf(q) ==
    CASE q.op = "searchGuidelines"        -> searchGuidelines(q.id, q.limit)
      [] q.op = "searchExamples"          -> searchExamples(q.id, q.limit)
      [] q.op = "getGuidelinesByCategory" -> getGuidelinesByCategory(q.id)
      [] q.op = "getExamplesByType"       -> getExamplesByType(q.id)
      [] q.op = "getConfigurationsByType" -> getConfigurationsByType(q.id)
      [] q.op = "getAllGuidelines"        -> getAllGuidelines
      [] q.op = "getAllExamples"          -> getAllExamples
      [] q.op = "getAllAntiPatterns"      -> getAllAntiPatterns
      [] q.op = "getAllConfigurations"    -> getAllConfigurations
      [] OTHER                            -> Answer(q)

\* a query operation runs to completion: it returns and assigns no field
runQuery_consuming(q) ==
    /\ lastQuery' = q
    /\ lastResult' = returnOf(q)
    /\ guidelineSearchIndex' =
          IF q.op = "searchGuidelines" /\ guidelineSearchIndex.built
          THEN LET Kept(d) == d \notin Range(returnOf(q))
               IN  NewFuse(SelectSeq(guidelineSearchIndex.docs, Kept))
          ELSE guidelineSearchIndex
    /\ UNCHANGED <<guidelines, examples, antiPatterns, configurations,
                   exampleSearchIndex, initialized>>

runQuery(q) ==
    /\ lastQuery' = q
    /\ lastResult' = returnOf(q)
    /\ UNCHANGED storeVars

QueryStore ==
    /\ \E q \in StoreQueries : runQuery(q)
    /\ UNCHANGED <<envVars, callVars, histVars, serverVars>>

\* one KnowledgeBase whose owner calls initialize() once and may call any
\* query operation at any time
NextQuery ==
    \/ StoreInitialize
    \/ InitializeSteps
    \/ QueryStore

SpecQuery == InitQuery /\ [][NextQuery]_vars

\* ------------------------------------------- one document, any spelling
MaxWords == 2
MaxLines == 2

NameWords ==
    {"describe", "naming", "context", "organization", "expect", "subject",
     "let", "factories", "mock", "stub", "shared", "matcher", "speed",
     "tooling", "config", "mocks", "completed", "notes", "MOCKS", "Config"}

BodyLines == {Line(0, ""), Line(0, "plain"), Line(1, "Heading"), Line(2, "Second")}

Document(words, category, title, body) ==
    [name |-> "doc", words |-> words, md |-> TRUE, readable |-> TRUE,
     fmTitle |-> title, fmCategory |-> category, fmTags |-> <<>>,
     fmExamples |-> <<>>, fmRelated |-> <<>>, fmPriority |-> "",
     body |-> body]

\* documents of every name of up to MaxWords words, with and without a
\* category in the front matter; and documents of every body of up to
\* MaxLines lines, with and without a title in the front matter
Documents ==
    {Document(w, c, "", <<Line(1, "Heading")>>) :
        w \in SeqsUpTo(NameWords, MaxWords) \ {<<>>}, c \in {"", "mocking", "misc"}}
    \cup
    {Document(<<"notes">>, "", t, b) :
        t \in {"", "Given"}, b \in SeqsUpTo(BodyLines, MaxLines) \ {<<>>}}

InitDoc ==
    /\ dirSrc \in {[kind |-> "ok", files |-> <<d>>] : d \in Documents}
    /\ examplesSrc = [kind |-> "ok", elems |-> <<Example1>>]
    /\ antiPatternsSrc = [kind |-> "ok", elems |-> <<AntiPattern1>>]
    /\ configurationsSrc = [kind |-> "ok", elems |-> <<Configuration1>>]
    /\ InitStore

\* one KnowledgeBase that loads a directory of one document
NextDoc ==
    \/ StoreInitialize
    \/ InitializeSteps

SpecDoc == InitDoc /\ [][NextDoc]_vars

\* ------------------------------------------- a store of five examples
Example3 == ExampleElem("ex3", "Validation spec", "validation", "model", "validation", <<>>)
Example4 == ExampleElem("ex4", "Feature spec", "login", "feature", "sign in", <<"feature">>)
Example5 == ExampleElem("ex5", "Helper spec", "formatting", "helper", "dates", <<"helper">>)

FiveExamples == {Example1, Example2, Example3, Example4, Example5}

\* examples.json holds the five examples, in any order
InitSearch ==
    /\ dirSrc = [kind |-> "ok", files |-> <<FileNotes>>]
    /\ examplesSrc \in {[kind |-> "ok", elems |-> es] :
                           es \in {s \in [1..Cardinality(FiveExamples) -> FiveExamples] : Distinct(s)}}
    /\ antiPatternsSrc = [kind |-> "ok", elems |-> <<AntiPattern1>>]
    /\ configurationsSrc = [kind |-> "ok", elems |-> <<Configuration1>>]
    /\ InitStore

SearchQueries ==
    {StoreQuery("searchExamples", "validation", n, <<>>) : n \in {1, 3, MaxLimit}}
    \cup {StoreQuery("searchExamples", "zzz", 3, <<>>)}

SearchStore ==
    /\ \E q \in SearchQueries : runQuery(q)
    /\ UNCHANGED <<envVars, callVars, histVars, serverVars>>

\* one KnowledgeBase of five examples that is initialised and searched
NextSearch ==
    \/ StoreInitialize
    \/ InitializeSteps
    \/ SearchStore

SpecSearch == InitSearch /\ [][NextSearch]_vars

\* ------------------------------------------- the server reading resources
\* the URIs a client reads: the five of getResourceDefinitions, the two
\* parameterised forms, and URIs of neither kind
ResourceReads ==
    {Request("read", b, "", <<>>) :
        b \in {"guidelines", "examples", "antipatterns", "configurations",
               "cheatsheet", "other"}}
    \cup {Request("read", b, "", <<p>>) :
            b \in {"guidelines", "examples", "antipatterns", "other"},
            p \in {"naming", "model"}}

\* a resources/read request arrives over the connected transport
ReadResource ==
    /\ transportConnected
    /\ mainPc = "serving"
    /\ \E req \in ResourceReads :
          /\ lastRequest' = req
          /\ lastResponse' = Dispatch(req)
    /\ UNCHANGED <<mainPc, transportConnected, exitCode>>
    /\ UNCHANGED <<envVars, storeVars, callVars, histVars, queryVars>>

NextResources ==
    \/ MainStart
    \/ InitializeSteps
    \/ ConnectResume
    \/ ReadResource

SpecResources == InitQuery /\ [][NextResources]_vars

\* ================================================== RSpecValidationTools
\* The code to validate is a sequence of lines; a line is written as a string
\* and read as the sequence of its characters.
MaxCode == 4       \* lines of the code whose rules are selected and scored
MaxSpan == 5       \* lines of the code whose expectations are counted

\* the characters of the lines and of the texts the rules look for
CodeSpelling ==
    "" :> <<>>
    @@ "it 'a' do" :> <<"i", "t", " ", "'", "a", "'", " ", "d", "o">>
    @@ "  it 'a' do" :> <<" ", " ", "i", "t", " ", "'", "a", "'", " ", "d", "o">>
    @@ "expect(a).to b" :> <<"e", "x", "p", "e", "c", "t", "(", "a", ")", ".", "t", "o", " ", "b">>
    @@ "  is_expected.to c" :>
        <<" ", " ", "i", "s", "_", "e", "x", "p", "e", "c", "t", "e", "d", ".", "t", "o", " ",
          "c">>
    @@ "end" :> <<"e", "n", "d">>
    @@ "  end " :> <<" ", " ", "e", "n", "d", " ">>
    @@ "end # x" :> <<"e", "n", "d", " ", "#", " ", "x">>
    @@ "it { expect(a).to b }" :>
        <<"i", "t", " ", "{", " ", "e", "x", "p", "e", "c", "t", "(", "a", ")", ".", "t", "o",
          " ", "b", " ", "}">>
    @@ "a.should b" :> <<"a", ".", "s", "h", "o", "u", "l", "d", " ", "b">>
    @@ "describe 'method aaaaaaaaaaaaaaaaaaaaaaaaaaaaaaaaaaaa' context 'x' @a = A.create(1)" :>
        <<"d", "e", "s", "c", "r", "i", "b", "e", " ", "'", "m", "e", "t", "h", "o", "d", " ",
          "a", "a", "a", "a", "a", "a", "a", "a", "a", "a", "a", "a", "a", "a", "a", "a", "a",
          "a", "a", "a", "a", "a", "a", "a", "a", "a", "a", "a", "a", "a", "a", "a", "a", "a",
          "a", "a", "'", " ", "c", "o", "n", "t", "e", "x", "t", " ", "'", "x", "'", " ", "@",
          "a", " ", "=", " ", "A", ".", "c", "r", "e", "a", "t", "e", "(", "1", ")">>
    @@ ".should " :> <<".", "s", "h", "o", "u", "l", "d", " ">>
    @@ ".should_not " :> <<".", "s", "h", "o", "u", "l", "d", "_", "n", "o", "t", " ">>
    @@ "describe" :> <<"d", "e", "s", "c", "r", "i", "b", "e">>
    @@ "context" :> <<"c", "o", "n", "t", "e", "x", "t">>
    @@ "method" :> <<"m", "e", "t", "h", "o", "d">>
    @@ "it " :> <<"i", "t", " ">>
    @@ "describe " :> <<"d", "e", "s", "c", "r", "i", "b", "e", " ">>
    @@ "expect(" :> <<"e", "x", "p", "e", "c", "t", "(">>
    @@ "is_expected" :> <<"i", "s", "_", "e", "x", "p", "e", "c", "t", "e", "d">>
    @@ "@" :> <<"@">>
    @@ "=" :> <<"=">>
    @@ "let" :> <<"l", "e", "t">>
    @@ ".create(" :> <<".", "c", "r", "e", "a", "t", "e", "(">>
    @@ "subject" :> <<"s", "u", "b", "j", "e", "c", "t">>
    @@ "when" :> <<"w", "h", "e", "n">>
    @@ "with" :> <<"w", "i", "t", "h">>
    @@ "without" :> <<"w", "i", "t", "h", "o", "u", "t">>

Str(s) == CodeSpelling[s]

WhiteSpace == {" ", "\t"}

Quotes == {"'", "\""}

WordChars ==
    {"a", "b", "c", "d", "e", "f", "g", "h", "i", "j", "k", "l", "m", "n", "o",
     "p", "q", "r", "s", "t", "u", "v", "w", "x", "y", "z",
     "A", "B", "C", "D", "E", "F", "G", "H", "I", "J", "K", "L", "M", "N", "O",
     "P", "Q", "R", "S", "T", "U", "V", "W", "X", "Y", "Z",
     "0", "1", "2", "3", "4", "5", "6", "7", "8", "9", "_"}

Least(S) == CHOOSE x \in S : \A y \in S : x <= y

Greatest(S) == CHOOSE x \in S : \A y \in S : y <= x

\* text has part at position i
At(text, i, part) ==
    /\ i >= 1
    /\ i + Len(part) - 1 <= Len(text)
    /\ SubSeq(text, i, i + Len(part) - 1) = part

\* text.includes(s)
includesText(text, s) == IsSubstring(Str(s), text)

\* text.trim()
trimText(text) ==
    LET solid == {i \in 1..Len(text) : text[i] \notin WhiteSpace}
    IN  IF solid = {} THEN <<>> ELSE SubSeq(text, Least(solid), Greatest(solid))

\* text.startsWith(s)
startsWith(text, s) == At(text, 1, Str(s))

\* line.match(/keyword\s+['"](.+?)['"]/): the first group of the leftmost
\* match, <<>> when the line has no match (a group is never empty)
matchQuotedText(line, keyword) ==
    LET kw == Str(keyword)
        n == Len(line)
        \* the first position after the keyword at i that is not white space
        Solid(i) == Least({q \in (i + Len(kw))..(n + 1) :
                              q = n + 1 \/ line[q] \notin WhiteSpace})
        Closing(i) == {k \in (Solid(i) + 2)..n : line[k] \in Quotes}
        Matches(i) ==
            /\ At(line, i, kw)
            /\ Solid(i) > i + Len(kw)
            /\ Solid(i) <= n
            /\ line[Solid(i)] \in Quotes
            /\ Closing(i) # {}
        starts == {i \in 1..n : Matches(i)}
    IN  IF starts = {} THEN <<>>
        ELSE LET i == Least(starts)
             IN  SubSeq(line, Solid(i) + 1, Least(Closing(i)) - 1)

\* line.match(/expect\(([^)]+)\)/): the first group of the leftmost match,
\* <<>> when the line has no match
matchExpectText(line) ==
    LET open == Str("expect(")
        n == Len(line)
        Closing(i) == {k \in (i + Len(open))..n : line[k] = ")"}
        Matches(i) ==
            /\ At(line, i, open)
            /\ Closing(i) # {}
            /\ Least(Closing(i)) > i + Len(open)
        starts == {i \in 1..n : Matches(i)}
    IN  IF starts = {} THEN <<>>
        ELSE LET i == Least(starts)
             IN  SubSeq(line, i + Len(open), Least(Closing(i)) - 1)

\* line.match(/\w+\.create\(/)
matchCreateText(line) ==
    \E i \in 2..Len(line) : line[i - 1] \in WordChars /\ At(line, i, Str(".create("))

\* What the rules ask of a line, worked out once for every line of the codes
\* and looked up from then on.
Scanned ==
    [line \in {CodeSpelling[text] : text \in DOMAIN CodeSpelling} |->
        [includes |-> {s \in DOMAIN CodeSpelling : includesText(line, s)},
         trim     |-> trimText(line),
         quoted   |-> [keyword \in {"describe", "context"} |->
                          matchQuotedText(line, keyword)],
         expect   |-> matchExpectText(line),
         create   |-> matchCreateText(line)]]

lineIncludes(line, s) == s \in Scanned[line].includes

trim(line) == Scanned[line].trim

matchQuoted(line, keyword) == Scanned[line].quoted[keyword]

matchExpect(line) == Scanned[line].expect

matchCreate(line) == Scanned[line].create

\* description.match(/^(when|with|without)\s/i)
matchCondition(description) ==
    \E w \in {"when", "with", "without"} :
        /\ At(toLowerCase(description), 1, Str(w))
        /\ Len(description) > Len(Str(w))
        /\ description[Len(Str(w)) + 1] \in WhiteSpace

RECURSIVE Flatten(_)
Flatten(ss) == IF ss = <<>> THEN <<>> ELSE Head(ss) \o Flatten(Tail(ss))

\* a ValidationIssue: its type, its line and its rule
Issue(type, line, rule) == [type |-> type, line |-> line, rule |-> rule]

checkShouldSyntax(lines) ==
    Flatten([i \in 1..Len(lines) |->
        IF lineIncludes(lines[i], ".should ") \/ lineIncludes(lines[i], ".should_not ")
        THEN <<Issue("error", i, "should_syntax")>>
        ELSE <<>>])

checkDescribeNaming(lines) ==
    Flatten([i \in 1..Len(lines) |->
        LET description == matchQuoted(lines[i], "describe")
        IN  IF description = <<>> THEN <<>>
            ELSE (IF includesText(description, "method")
                     /\ description[1] \notin {".", "#"}
                  THEN <<Issue("warning", i, "describe_naming")>>
                  ELSE <<>>)
                 \o (IF Len(description) > 40
                     THEN <<Issue("suggestion", i, "describe_naming")>>
                     ELSE <<>>)])

checkContextUsage(lines) ==
    Flatten([i \in 1..Len(lines) |->
        LET description == matchQuoted(lines[i], "context")
        IN  IF description # <<>> /\ ~matchCondition(description)
            THEN <<Issue("suggestion", i, "context_usage")>>
            ELSE <<>>])

\* variant: a new `it ` line inside an open block keeps the count
RECURSIVE expectationScan_keepsCount(_, _, _, _, _)
expectationScan_keepsCount(lines, i, inItBlock, expectationCount, itStartLine) ==
    IF i > Len(lines) THEN <<>>
    ELSE IF startsWith(trim(lines[i]), "it ")
    THEN expectationScan_keepsCount(lines, i + 1, TRUE,
                                    IF inItBlock THEN expectationCount ELSE 0,
                                    IF inItBlock THEN itStartLine ELSE i)
    ELSE IF trim(lines[i]) = Str("end") /\ inItBlock
    THEN (IF expectationCount > 1
          THEN <<Issue("warning", itStartLine, "expectation_count")>>
          ELSE <<>>)
         \o expectationScan_keepsCount(lines, i + 1, FALSE, expectationCount, itStartLine)
    ELSE IF inItBlock /\ (lineIncludes(lines[i], "expect(")
                          \/ lineIncludes(lines[i], "is_expected"))
    THEN expectationScan_keepsCount(lines, i + 1, inItBlock, expectationCount + 1, itStartLine)
    ELSE expectationScan_keepsCount(lines, i + 1, inItBlock, expectationCount, itStartLine)

checkExpectationCount_keepsCount(lines) == expectationScan_keepsCount(lines, 1, FALSE, 0, 0)

\* the forEach of checkExpectationCount from line i on, with the three
\* variables the callback keeps between lines
RECURSIVE expectationScan(_, _, _, _, _)
expectationScan(lines, i, inItBlock, expectationCount, itStartLine) ==
    IF i > Len(lines) THEN <<>>
    ELSE IF startsWith(trim(lines[i]), "it ")
    THEN expectationScan(lines, i + 1, TRUE, 0, i)
    ELSE IF trim(lines[i]) = Str("end") /\ inItBlock
    THEN (IF expectationCount > 1
          THEN <<Issue("warning", itStartLine, "expectation_count")>>
          ELSE <<>>)
         \o expectationScan(lines, i + 1, FALSE, expectationCount, itStartLine)
    ELSE IF inItBlock /\ (lineIncludes(lines[i], "expect(")
                          \/ lineIncludes(lines[i], "is_expected"))
    THEN expectationScan(lines, i + 1, inItBlock, expectationCount + 1, itStartLine)
    ELSE expectationScan(lines, i + 1, inItBlock, expectationCount, itStartLine)

checkExpectationCount(lines) == expectationScan(lines, 1, FALSE, 0, 0)

checkTestStructure(lines) ==
    Flatten([i \in 1..Len(lines) |->
        LET hasDescribe == \E j \in 1..i : lineIncludes(lines[j], "describe ")
        IN  IF lineIncludes(lines[i], "it ") /\ ~hasDescribe
            THEN <<Issue("error", i, "test_structure")>>
            ELSE <<>>])

checkLetUsage(lines) ==
    Flatten([i \in 1..Len(lines) |->
        IF /\ lineIncludes(lines[i], "@")
           /\ lineIncludes(lines[i], "=")
           /\ ~lineIncludes(lines[i], "let")
        THEN <<Issue("suggestion", i, "let_usage")>>
        ELSE <<>>])

\* objectReferences lists its objects in the order of their first line
checkSubjectUsage(lines) ==
    Flatten([i \in 1..Len(lines) |->
        LET object == matchExpect(lines[i])
            lineNumbers == {j \in 1..Len(lines) : matchExpect(lines[j]) = object}
        IN  IF /\ object # <<>>
               /\ i = Least(lineNumbers)
               /\ Cardinality(lineNumbers) > 2
               /\ ~includesText(object, "subject")
            THEN <<Issue("suggestion", i, "subject_usage")>>
            ELSE <<>>])

checkFactoryUsage(lines) ==
    Flatten([i \in 1..Len(lines) |->
        IF matchCreate(lines[i])
        THEN <<Issue("suggestion", i, "factory_usage")>>
        ELSE <<>>])

\* the names of validationRules, in the order of the array
validationRules ==
    <<"should_syntax", "describe_naming", "context_usage", "expectation_count",
      "test_structure", "let_usage", "subject_usage", "factory_usage">>

\* rule.check(lines)
ruleCheck(name, lines) ==
    CASE name = "should_syntax"     -> checkShouldSyntax(lines)
      [] name = "describe_naming"   -> checkDescribeNaming(lines)
      [] name = "context_usage"     -> checkContextUsage(lines)
      [] name = "expectation_count" -> checkExpectationCount(lines)
      [] name = "test_structure"    -> checkTestStructure(lines)
      [] name = "let_usage"         -> checkLetUsage(lines)
      [] name = "subject_usage"     -> checkSubjectUsage(lines)
      [] name = "factory_usage"     -> checkFactoryUsage(lines)

\* an optional value is <<>> when absent and <<v>> when given
Absent == <<>>

Given(v) == <<v>>

\* variant: the named rules are the ones that run, whatever checkAll holds
ruleSelected_namedOnly(name, checkAll, specificChecks) ==
    specificChecks # Absent /\ name \in Range(specificChecks[1])

\* checkAll || (specificChecks && specificChecks.includes(rule.name))
ruleSelected(name, checkAll, specificChecks) ==
    checkAll \/ (specificChecks # Absent /\ name \in Range(specificChecks[1]))

CountOfType(issues, type) == Cardinality({i \in 1..Len(issues) : issues[i].type = type})

\* variant: the score is not held at zero
scoreOf_unclamped(issues) ==
    100 - (CountOfType(issues, "error") * 20 + CountOfType(issues, "warning") * 10
           + CountOfType(issues, "suggestion") * 5)

\* score -= errors * 20 + warnings * 10 + suggestions * 5; Math.max(0, score)
scoreOf(issues) ==
    LET score == 100 - (CountOfType(issues, "error") * 20
                        + CountOfType(issues, "warning") * 10
                        + CountOfType(issues, "suggestion") * 5)
    IN  IF score < 0 THEN 0 ELSE score

generateSummary(score) ==
    IF score >= 90 THEN "Excellent"
    ELSE IF score >= 70 THEN "Good"
    ELSE IF score >= 50 THEN "Moderate"
    ELSE "Significant improvements needed"

\* code.split('\n'): the lines of the code, each as its characters
splitLines(code) == [i \in 1..Len(code) |-> Str(code[i])]

\* the ValidationResult that performValidation returns for its issues
ValidationResult(issues) ==
    [status  |-> "result",
     isValid |-> CountOfType(issues, "error") = 0,
     score   |-> scoreOf(issues),
     issues  |-> issues,
     summary |-> generateSummary(scoreOf(issues))]

\* (the lines and the issues are worked out once and then named)
performValidation(code, checkAll, specificChecks) ==
    CHOOSE result \in
        {ValidationResult(issues) :
            issues \in {Flatten([r \in 1..Len(validationRules) |->
                IF ruleSelected(validationRules[r], checkAll, specificChecks)
                THEN ruleCheck(validationRules[r], lines)
                ELSE <<>>]) : lines \in {splitLines(code)}}} : TRUE

\* ValidateSpecInputSchema.parse(args): checkAll defaults to true
ValidateSpecInput(args) ==
    [code |-> args.code,
     checkAll |-> IF args.checkAll = Absent THEN TRUE ELSE args.checkAll[1],
     specificChecks |-> args.specificChecks]

\* the validation behind the rendered response of validateSpecCode
validateSpecCode(args) ==
    LET input == ValidateSpecInput(args)
    IN  performValidation(input.code, input.checkAll, input.specificChecks)

\* the arguments of one validate_spec_code call
ValidateArgs(code, checkAll, specificChecks) ==
    [op |-> "validate_spec_code", code |-> code, checkAll |-> checkAll,
     specificChecks |-> specificChecks]

\* a code is one line at least: the split of the empty string is one empty line
Codes(lineSet, n) == {<<"">>} \cup (SeqsUpTo(lineSet, n) \ {<<>>})

LongDescribe ==
    "describe 'method aaaaaaaaaaaaaaaaaaaaaaaaaaaaaaaaaaaa' context 'x' @a = A.create(1)"

RuleLines == {"it 'a' do", "expect(a).to b", "end", "a.should b", LongDescribe}

SpanLines ==
    {"  it 'a' do", "expect(a).to b", "  is_expected.to c", "  end ", "end # x",
     "it { expect(a).to b }"}

NamedChecks ==
    {<<"expectation_count", "should_syntax", "test_structure", "subject_usage">>,
     <<"nosuch", "describe_naming", "context_usage", "let_usage", "factory_usage">>}

\* checkAll and specificChecks as a call gives them or leaves them out
CheckSelections ==
    {<<Absent, Absent>>, <<Given(TRUE), Absent>>, <<Given(FALSE), Absent>>,
     <<Given(FALSE), Given(<<>>)>>}
    \cup {<<checkAll, Given(named)>> :
             checkAll \in {Absent, Given(FALSE)}, named \in NamedChecks}

\* the knowledge base the tool is constructed with is not read by it
InitTool(args) ==
    /\ dirSrc = [kind |-> "ok", files |-> <<>>]
    /\ examplesSrc = [kind |-> "ok", elems |-> <<>>]
    /\ antiPatternsSrc = [kind |-> "ok", elems |-> <<>>]
    /\ configurationsSrc = [kind |-> "ok", elems |-> <<>>]
    /\ guidelines = <<>>
    /\ examples = <<>>
    /\ antiPatterns = <<>>
    /\ configurations = <<>>
    /\ guidelineSearchIndex = NoIndex
    /\ exampleSearchIndex = NoIndex
    /\ initialized = FALSE
    /\ pc = [c \in Calls |-> "start"]
    /\ idx = [c \in Calls |-> 0]
    /\ loaderRuns = [l \in Loaders |-> 0]
    /\ reads = 0
    /\ fuseError = "none"
    /\ mainPc = "start"
    /\ transportConnected = FALSE
    /\ exitCode = -1
    /\ lastRequest \in args
    /\ lastResponse = NoResponse
    /\ lastQuery = NoQuery
    /\ lastResult = NoResult

\* handleTool('validate_spec_code', args)
ValidateSpecCode ==
    /\ lastRequest.op = "validate_spec_code"
    /\ lastResponse = NoResponse
    /\ lastResponse' = validateSpecCode(lastRequest)
    /\ UNCHANGED <<lastRequest, mainPc, transportConnected, exitCode>>
    /\ UNCHANGED <<envVars, storeVars, callVars, histVars, queryVars>>

NextValidate == ValidateSpecCode

\* validate_spec_code over codes that the eight rules judge
InitValidate ==
    InitTool({ValidateArgs(code, selection[1], selection[2]) :
                 code \in Codes(RuleLines, MaxCode),
                 selection \in CheckSelections})

SpecValidate == InitValidate /\ [][NextValidate]_vars

\* validate_spec_code over codes of `it` blocks and expectations
InitExpect ==
    InitTool({ValidateArgs(code, Given(FALSE), Given(<<"expectation_count">>)) :
                 code \in Codes(SpanLines, MaxSpan)})

SpecExpect == InitExpect /\ [][NextValidate]_vars

\* --------------------------------- the server asked for guidance by category
MaxRanked == 6     \* guidelines that match the topic asked about

RankedNames == <<"g1", "g2", "g3", "g4", "g5", "g6", "g7", "g8">>

\* the i-th document of the directory: it names the topic in its title when i
\* is even and in its tags when i is odd, and states its category
RankedFile(i, category) ==
    [name |-> RankedNames[i], words |-> <<"notes">>, md |-> TRUE, readable |-> TRUE,
     fmTitle |-> IF i % 2 = 0 THEN "mocks" ELSE "Guide",
     fmCategory |-> category,
     fmTags |-> IF i % 2 = 0 THEN <<>> ELSE <<"mocks">>,
     fmExamples |-> <<>>, fmRelated |-> <<>>, fmPriority |-> "",
     body |-> <<Line(1, "Guide")>>]

InitGuidance ==
    /\ dirSrc \in {[kind |-> "ok", files |-> [i \in DOMAIN cs |-> RankedFile(i, cs[i])]] :
                      cs \in SeqsUpTo({"mocking", "naming"}, MaxRanked)}
    /\ examplesSrc = [kind |-> "ok", elems |-> <<Example1>>]
    /\ antiPatternsSrc = [kind |-> "ok", elems |-> <<AntiPattern1>>]
    /\ configurationsSrc = [kind |-> "ok", elems |-> <<Configuration1>>]
    /\ InitStore

GuidanceRequests ==
    {Request("get_rspec_guidance", "mocks", c, <<>>) : c \in {"mocking", "naming"}}
    \cup {Request("get_rspec_guidance", "zzz", "mocking", <<>>)}

\* a get_rspec_guidance call arrives over the connected transport
GuidanceRequest ==
    /\ transportConnected
    /\ mainPc = "serving"
    /\ \E req \in GuidanceRequests :
          /\ lastRequest' = req
          /\ lastResponse' = Dispatch(req)
    /\ UNCHANGED <<mainPc, transportConnected, exitCode>>
    /\ UNCHANGED <<envVars, storeVars, callVars, histVars, queryVars>>

NextGuidance ==
    \/ MainStart
    \/ InitializeSteps
    \/ ConnectResume
    \/ GuidanceRequest

SpecGuidance == InitGuidance /\ [][NextGuidance]_vars

\* ================================================================ claims
InProgress ==
    {"loadGuidelines", "readFile", "loadExamples", "loadAntiPatterns",
     "loadConfigurations", "buildSearchIndices"}

\* ---- C1: the transport is connected, and so a request handled, only after
\* initialize() has completed: whenever the transport is connected or a
\* request has been dispatched, the initialized flag is set and the
\* invocation made by connect is neither in progress nor unstarted.
C1_ConnectAfterInitialize ==
    (transportConnected \/ lastRequest # NoRequest)
        => (initialized /\ pc[1] = "done")

C1_Witness ==
    /\ transportConnected
    /\ lastRequest.op = "search_rspec_guidelines"
    /\ lastResponse.text = "Search Results"

C3_FailedSourceGetsDefault ==
    pc[1] = "done" =>
        /\ examplesSrc.kind # "ok" =>
              /\ Len(getAllExamples) >= 1
              /\ Range(defaultExamples) \subseteq Range(getAllExamples)
        /\ antiPatternsSrc.kind # "ok" =>
              /\ Len(getAllAntiPatterns) >= 1
              /\ Range(defaultAntiPatterns) \subseteq Range(getAllAntiPatterns)
        /\ configurationsSrc.kind # "ok" =>
              /\ Len(getAllConfigurations) >= 1
              /\ Range(defaultConfigurations) \subseteq Range(getAllConfigurations)

C3_Witness ==
    /\ pc[1] = "done"
    /\ examplesSrc.kind = "missing"
    /\ antiPatternsSrc.kind = "malformed"
    /\ configurationsSrc.kind = "missing"
    /\ Ids(examples) = <<"model-basic">>

\* ---- C4: whatever sources fail, initialize() does not raise because of a
\* source and is never stuck, it sets the flag when it completes, and every
\* dataset whose own source is readable holds exactly the records of that
\* source, whatever happened to the other three.
C4_SourcesAreIndependent ==
    /\ pc[1] = "thrown" => fuseError # "none"
    /\ pc[1] \in InProgress => ENABLED InitializeSteps
    /\ pc[1] = "done" =>
          /\ initialized
          /\ DirReadable(dirSrc) =>
                LET md == markdownFiles(dirSrc.files)
                IN guidelines = [i \in 1..Len(md) |-> guidelineOf(md[i])]
          /\ SourceReadable(examplesSrc) => examples = examplesSrc.elems
          /\ SourceReadable(antiPatternsSrc) => antiPatterns = antiPatternsSrc.elems
          /\ SourceReadable(configurationsSrc) => configurations = configurationsSrc.elems

C4_Witness ==
    /\ pc[1] = "done"
    /\ dirSrc.kind = "missing"
    /\ examplesSrc.kind = "malformed"
    /\ SourceReadable(antiPatternsSrc)
    /\ antiPatterns = <<AntiPattern1>>
    /\ ~SourceReadable(configurationsSrc)

\* ---- C5: after initialize(), every stored guideline has a category of the
\* closed set of eight, whatever category value its front matter carries.
C5_CategoryInClosedSet ==
    pc[1] = "done" =>
        \A id \in MapKeys(guidelines) : getGuideline(id)[1].category \in Categories

\* ---- C6: once initialize() has completed successfully, a later call
\* returns at once: it issues no read and leaves the four maps, the two
\* indices and the flag as they were.
C6_LaterCallIsNoop ==
    [][\A c \in Calls :
          (pc[c] = "start" /\ pc'[c] # "start" /\ initialized)
              => (pc'[c] = "returned" /\ reads' = reads
                  /\ loaderRuns' = loaderRuns /\ UNCHANGED storeVars)]_vars

C6_Witness ==
    initialized /\ \E c \in Calls : pc[c] = "returned"

\* ---- C7: for any interleaving of initialize() calls on one KnowledgeBase,
\* each dataset loader runs at most once and the indices are built at most
\* once.
C7_LoadersRunAtMostOnce ==
    \A l \in Loaders : loaderRuns[l] <= 1

\* ---- C8: when initialize() raises, the error leaves connect, the
\* transport is never connected, no request is served, main exits with
\* code 1 and the initialized flag stays false.
C8_FailedInitializeAbortsStartup ==
    pc[1] = "thrown" =>
        /\ ~transportConnected
        /\ lastRequest = NoRequest
        /\ ~initialized
        /\ mainPc \in {"connecting", "exited"}
        /\ mainPc = "exited" => exitCode = 1
        /\ mainPc = "connecting" => ENABLED ConnectResume

C8_Witness ==
    pc[1] = "thrown" /\ mainPc = "exited" /\ exitCode = 1 /\ fuseError = "example"

\* ---- C9: getGuideline, getExample, getAntiPattern and getConfiguration
\* return undefined for an id that is no key of their map, and for a key
\* exactly the record stored under it.
C9_MapOf(op) ==
    CASE op = "getGuideline"     -> guidelines
      [] op = "getExample"       -> examples
      [] op = "getAntiPattern"   -> antiPatterns
      [] op = "getConfiguration" -> configurations

C9_LookupById ==
    [][(<<lastQuery, lastResult>>' # <<lastQuery, lastResult>>) =>
          LET q == lastQuery'
              m == C9_MapOf(q.op)
          IN IF q.id \in MapKeys(m)
             THEN /\ Len(lastResult') = 1
                  /\ lastResult'[1].id = q.id
                  /\ \E i \in 1..Len(m) : m[i] = lastResult'[1]
             ELSE lastResult' = <<>>]_vars

C9_Witness ==
    /\ initialized
    /\ lastQuery = [op |-> "getConfiguration", id |-> "cfg1"]
    /\ lastResult = <<Configuration1>>

\* ---- C10: the not-found cases of the entry points
C10_NotFound(req) ==
    CASE req.op = "get_rspec_guidance" ->
            /\ req.category \in Categories \cup {""}
            /\ \A i \in 1..Len(searchGuidelines(req.arg, 5)) :
                  req.category # ""
                  /\ searchGuidelines(req.arg, 5)[i].category # req.category
      [] req.op = "search_rspec_guidelines" -> searchGuidelines(req.arg, 5) = <<>>
      [] req.op = "get_category_overview" -> getGuidelinesByCategory(req.category) = <<>>
      [] req.op = "read" /\ req.arg = "examples" /\ req.param # <<>> ->
            getExamplesByType(req.param[1]) = <<>>
      [] req.op = "read" /\ req.arg = "guidelines" /\ req.param # <<>> ->
            ~MapHas(guidelines, req.param[1])
      [] OTHER -> FALSE

C10_UnknownGuidelineId(req) ==
    req.op = "read" /\ req.arg = "guidelines" /\ req.param # <<>>

\* ---- C10 as written: at each of the five entry points a not-found is
\* answered by a normal result that renders no record, never by an error.
C10_NotFoundNeverRaises ==
    (lastRequest # NoRequest /\ C10_NotFound(lastRequest))
        => (lastResponse.status = "result" /\ lastResponse.ids = <<>>)

\* ---- C10 amended: get_rspec_guidance, search_rspec_guidelines,
\* get_category_overview and better-specs://examples/{type} answer a
\* not-found by a normal result that renders no record; reading
\* better-specs://guidelines/{id} with an unknown id raises "Guideline not
\* found".
C10_NotFoundRaisesOnlyForGuidelineId ==
    (lastRequest # NoRequest /\ C10_NotFound(lastRequest))
        => IF C10_UnknownGuidelineId(lastRequest)
           THEN lastResponse = Raised("Guideline not found")
           ELSE lastResponse.status = "result" /\ lastResponse.ids = <<>>

C10_Witness ==
    /\ lastRequest = Request("get_rspec_guidance", "Mocks", "mocking", <<>>)
    /\ MapHas(guidelines, "06_mocks_and_http_stubs")
    /\ lastResponse = Result("No specific guidance found", <<>>)

\* the step is a call of the query operation op, with options q and result r
Returned(op) ==
    /\ <<lastQuery, lastResult>>' # <<lastQuery, lastResult>>
    /\ lastQuery'.op = op

IsPrefixOfLength(r, ranked, n) ==
    /\ Len(r) = (IF n < Len(ranked) THEN n ELSE Len(ranked))
    /\ \A i \in 1..Len(r) : r[i] = ranked[i]

\* C11: for every query and every limit N in 1..MaxLimit, searchGuidelines
\* and searchExamples on a built index return the first N records of the
\* index's ranked result list (all of them when it has fewer), in its order.
C11_SearchReturnsRankedPrefix ==
    [][/\ (Returned("searchGuidelines") /\ guidelineSearchIndex.built)
          => /\ lastQuery'.limit \in 1..MaxLimit
             /\ Len(lastResult') <= lastQuery'.limit
             /\ IsPrefixOfLength(lastResult',
                    FuseSearchGuidelines(guidelineSearchIndex.docs, lastQuery'.id),
                    lastQuery'.limit)
       /\ (Returned("searchExamples") /\ exampleSearchIndex.built)
          => /\ lastQuery'.limit \in 1..MaxLimit
             /\ Len(lastResult') <= lastQuery'.limit
             /\ IsPrefixOfLength(lastResult',
                    FuseSearchExamples(exampleSearchIndex.docs, lastQuery'.id),
                    lastQuery'.limit)]_vars

\* a search with limit 1 returned the best of at least two ranked records
C11_Witness ==
    /\ lastQuery.op = "searchGuidelines"
    /\ lastQuery.limit = 1
    /\ guidelineSearchIndex.built
    /\ Len(FuseSearchGuidelines(guidelineSearchIndex.docs, lastQuery.id)) >= 2
    /\ lastResult = <<FuseSearchGuidelines(guidelineSearchIndex.docs, lastQuery.id)[1]>>

\* C12: searchGuidelines and searchExamples called with the empty string as
\* query return the empty list, whatever the index holds.
C12_EmptyQueryFindsNothing ==
    [][(/\ (Returned("searchGuidelines") \/ Returned("searchExamples"))
        /\ lastQuery'.id = "")
       => lastResult' = <<>>]_vars

\* the empty query was put to a built index that holds documents
C12_Witness ==
    /\ lastQuery.op = "searchGuidelines"
    /\ lastQuery.id = ""
    /\ guidelineSearchIndex.built
    /\ guidelineSearchIndex.docs # <<>>
    /\ fuseError = "none"
    /\ lastResult = <<>>

\* C13: when searchGuidelines is given a categories list, every guideline it
\* returns has its category in that list.
C13_ResultsWithinCategories ==
    [][(Returned("searchGuidelines") /\ lastQuery'.categories # <<>>)
       => \A i \in 1..Len(lastResult') :
             lastResult'[i].category \in Range(lastQuery'.categories)]_vars

\* r holds exactly the records of map m whose field equals value, each once,
\* in the order in which m holds them
ExactlyInMapOrder(r, m, field, value) ==
    /\ \A i \in 1..Len(r) : MapHas(m, r[i].id) /\ r[i] = m[MapIndex(m, r[i].id)]
    /\ \A i \in 1..Len(r) : r[i][field] = value
    /\ \A j \in 1..Len(m) : m[j][field] = value => \E i \in 1..Len(r) : r[i] = m[j]
    /\ \A i, j \in 1..Len(r) : i < j => MapIndex(m, r[i].id) < MapIndex(m, r[j].id)

\* C14: getGuidelinesByCategory(c) returns exactly the guidelines whose
\* category is c, in map insertion order, and the empty list when there is
\* none; getExamplesByType and getConfigurationsByType do the same for
\* specType and type.
C14_FiltersAreExactAndOrdered ==
    [][/\ Returned("getGuidelinesByCategory")
          => ExactlyInMapOrder(lastResult', guidelines, "category", lastQuery'.id)
       /\ Returned("getExamplesByType")
          => ExactlyInMapOrder(lastResult', examples, "specType", lastQuery'.id)
       /\ Returned("getConfigurationsByType")
          => ExactlyInMapOrder(lastResult', configurations, "type", lastQuery'.id)]_vars

\* two guidelines of the category asked for were returned as the map holds them
C14_Witness ==
    /\ lastQuery.op = "getGuidelinesByCategory"
    /\ lastQuery.id = "naming"
    /\ Len(guidelines) = 2
    /\ lastResult = guidelines
    /\ \A i \in 1..2 : guidelines[i].category = "naming"

\* the directory entry from which the guideline record g was built
FileOf(g) == CHOOSE f \in Range(dirSrc.files) : f.name = g.id

\* C15: when the front matter of a document carries a category, that value
\* is the stored category, whatever the file is called, also when the
\* keywords of its name would infer another category.
C15_ExplicitCategoryWins ==
    \A i \in 1..Len(guidelines) :
        FileOf(guidelines[i]).fmCategory # ""
            => guidelines[i].category = FileOf(guidelines[i]).fmCategory

\* a document was stored under its front-matter category although its name
\* holds the keyword of another category
C15_Witness ==
    /\ guidelines # <<>>
    /\ FileOf(guidelines[1]).fmCategory = "misc"
    /\ inferCategoryFromFilename(fileName(FileOf(guidelines[1]))) = "expectations"
    /\ guidelines[1].category = "misc"

\* the rules of the inference as the claim lists them: keyword, category
KeywordRules ==
    << <<"describe", "naming">>, <<"naming", "naming">>,
       <<"context", "organization">>, <<"organization", "organization">>,
       <<"expect", "expectations">>, <<"subject", "expectations">>,
       <<"let", "data-setup">>, <<"factories", "data-setup">>,
       <<"mock", "mocking">>, <<"stub", "mocking">>,
       <<"shared", "shared-examples">>, <<"matcher", "shared-examples">>,
       <<"speed", "performance">>, <<"tooling", "performance">>,
       <<"config", "configuration">> >>

\* the category of the first rule whose keyword is a substring of text
FirstRuleCategory(text) ==
    LET hits == {i \in DOMAIN KeywordRules : IsSubstring(Chars(KeywordRules[i][1]), text)}
    IN  IF hits = {} THEN "organization"
        ELSE KeywordRules[CHOOSE i \in hits : \A j \in hits : i <= j][2]

\* C16 as stated: without a category in the front matter, the stored category
\* is that of the first rule, in the fixed order, whose keyword is a substring
\* of the filename, and organization when none is.
C16_FirstRuleOfFilename ==
    \A i \in 1..Len(guidelines) :
        FileOf(guidelines[i]).fmCategory = ""
            => guidelines[i].category = FirstRuleCategory(fileName(FileOf(guidelines[i])))

\* C16, amended: without a category in the front matter, the stored category
\* is that of the first rule, in the fixed order, whose keyword is a substring
\* of the lower-cased filename, and organization when none is; a name holding
\* keywords of several rules gets the category of the earliest rule, and
\* 06_mocks_and_http_stubs.md gets mocking.
C16_FirstRuleOfLowerCasedFilename ==
    /\ \A i \in 1..Len(guidelines) :
          FileOf(guidelines[i]).fmCategory = ""
              => guidelines[i].category =
                    FirstRuleCategory(toLowerCase(fileName(FileOf(guidelines[i]))))
    /\ inferCategoryFromFilename(fileName(FileMocks)) = "mocking"

\* a document named after keywords of two rules, the later rule's keyword
\* first, was stored under the earlier rule's category
C16_Witness ==
    /\ guidelines # <<>>
    /\ FileOf(guidelines[1]).fmCategory = ""
    /\ FileOf(guidelines[1]).words = <<"config", "let">>
    /\ guidelines[1].category = "data-setup"

\* the text of the first heading line of a body that has one
FirstHeading(body) ==
    body[CHOOSE i \in 1..Len(body) :
            /\ body[i].hashes > 0
            /\ \A j \in 1..(i - 1) : body[j].hashes = 0].text

\* C17: without a title in the front matter, the stored title is the text of
\* the first heading line of the body, also when blank or non-heading lines
\* precede that heading.
C17_TitleIsFirstHeading ==
    \A i \in 1..Len(guidelines) :
        LET f == FileOf(guidelines[i])
        IN  (f.fmTitle = "" /\ \E k \in 1..Len(f.body) : f.body[k].hashes > 0)
                => guidelines[i].title = FirstHeading(f.body)

\* C18: on an initialised store every query operation leaves the four maps,
\* the two indices and the initialised flag as they were, so that in any
\* sequence of queries the query made before it returns after it what it
\* returned before it.
C18_QueriesChangeNothing ==
    [][(initialized /\ <<lastQuery, lastResult>>' # <<lastQuery, lastResult>>)
       => /\ UNCHANGED storeVars
          /\ \A q \in {lastQuery} :
                q.op # "none" => returnOf(q)' = returnOf(q)]_vars

\* a second query was answered by the initialised store after a search that
\* found records
C18_Witness ==
    /\ initialized
    /\ lastQuery.op = "getAllGuidelines"
    /\ lastResult = guidelines
    /\ Len(guidelines) >= 2
    /\ searchGuidelines("naming", MaxLimit) # <<>>

\* C19: searchGuidelines and searchExamples on a store whose index is not
\* built, before initialize has built it or after its construction failed,
\* return the empty list.
C19_NoIndexFindsNothing ==
    [][/\ (Returned("searchGuidelines") /\ ~guidelineSearchIndex.built)
          => lastResult' = <<>>
       /\ (Returned("searchExamples") /\ ~exampleSearchIndex.built)
          => lastResult' = <<>>]_vars

\* initialize failed while building the guideline index, and a search for a
\* term that loaded guidelines hold returned the empty list
C19_Witness ==
    /\ pc[1] = "thrown"
    /\ fuseError = "guideline"
    /\ ~guidelineSearchIndex.built
    /\ FuseSearchGuidelines(guidelines, "naming") # <<>>
    /\ lastQuery.op = "searchGuidelines"
    /\ lastQuery.id = "naming"
    /\ lastResult = <<>>

\* the term q appears in the tags of guideline g and in no other indexed field
OnlyInTags(g, q) ==
    /\ q \in Range(g.tags)
    /\ g.title # q
    /\ g.category # q
    /\ \A i \in 1..Len(g.content) : g.content[i].text # q

\* C20: in the result of a search for a term, a guideline that holds the term
\* only in its tags comes after every indexed guideline whose title is exactly
\* the term.
C20_TitleRanksAboveTags ==
    [][(Returned("searchGuidelines") /\ guidelineSearchIndex.built)
       => \A j \in 1..Len(lastResult') :
             OnlyInTags(lastResult'[j], lastQuery'.id)
                => \A d \in Range(guidelineSearchIndex.docs) :
                      d.title = lastQuery'.id
                         => \E i \in 1..(j - 1) : lastResult'[i] = d]_vars

\* the guideline that holds the term in its tags was indexed first, and the
\* search returned the guideline titled with the term before it
C20_Witness ==
    /\ guidelineSearchIndex.built
    /\ Len(guidelineSearchIndex.docs) = 2
    /\ OnlyInTags(guidelineSearchIndex.docs[1], "naming")
    /\ guidelineSearchIndex.docs[2].title = "naming"
    /\ lastQuery.op = "searchGuidelines"
    /\ lastQuery.id = "naming"
    /\ lastResult = <<guidelineSearchIndex.docs[2], guidelineSearchIndex.docs[1]>>

\* C21: when fewer indexed examples match the query than the limit allows,
\* searchExamples returns exactly the matching examples, each once, best
\* match first; of five examples of which two hold the query word in their
\* description, a search with limit 3 returns those two.
C21_FewerMatchesThanLimit ==
    [][(Returned("searchExamples") /\ exampleSearchIndex.built)
       => LET docs == exampleSearchIndex.docs
              q == lastQuery'.id
              matching == {d \in Range(docs) : exampleRelevance(d, q) > 0}
              r == lastResult'
          IN  Cardinality(matching) < lastQuery'.limit
                 => /\ Range(r) = matching
                    /\ Len(r) = Cardinality(matching)
                    /\ \A i, j \in 1..Len(r) :
                          i < j => exampleRelevance(r[i], q) >= exampleRelevance(r[j], q)]_vars

\* of the five indexed examples the search with limit 3 returned the two
\* whose description is the query word, the better match first
C21_Witness ==
    /\ Len(exampleSearchIndex.docs) = 5
    /\ exampleSearchIndex.docs[1] = Example1
    /\ lastQuery.op = "searchExamples"
    /\ lastQuery.id = "validation"
    /\ lastQuery.limit = 3
    /\ lastResult = <<Example3, Example1>>
    /\ {d \in FiveExamples : d.description = "validation"} = {Example1, Example3}

\* the guideline records that a guidance response renders
Shown(response) == [i \in 1..Len(response.ids) |-> getGuideline(response.ids[i])[1]]

\* C22: a guideline whose examples or relatedGuidelines name ids that the
\* store does not hold is loaded with those lists as written, and
\* get_rspec_guidance with a valid category or none does not raise: it lists
\* the referenced examples and guidelines that resolve and none that does not.
C22_DanglingReferencesAreSkipped ==
    /\ \A i \in 1..Len(guidelines) :
          /\ guidelines[i].examples = FileOf(guidelines[i]).fmExamples
          /\ guidelines[i].relatedGuidelines = FileOf(guidelines[i]).fmRelated
    /\ (lastRequest.op = "get_rspec_guidance" /\ lastRequest.category \in Categories \cup {""})
          => /\ lastResponse.status = "result"
             /\ lastResponse.text = "Better Specs Guidance"
                   => /\ \A id \in Range(lastResponse.examples) : MapHas(examples, id)
                      /\ \A id \in Range(lastResponse.related) : MapHas(guidelines, id)
                      /\ \A g \in Range(Shown(lastResponse)) :
                            \A k \in 1..Len(g.examples) :
                               (k <= 2 /\ MapHas(examples, g.examples[k]))
                                  => g.examples[k] \in Range(lastResponse.examples)
                      /\ \A id \in Range(Take(Unique(relatedIds(Shown(lastResponse))), 3)) :
                            MapHas(guidelines, id) => id \in Range(lastResponse.related)

\* guidance rendered a guideline with one resolving and one dangling example
\* and one resolving and one dangling related guideline
C22_Witness ==
    /\ lastRequest.op = "get_rspec_guidance"
    /\ lastResponse.status = "result"
    /\ lastResponse.text = "Better Specs Guidance"
    /\ lastResponse.ids = <<"06_mocks_and_http_stubs">>
    /\ getGuideline("06_mocks_and_http_stubs")[1].examples = <<"ex1", "ex9">>
    /\ getGuideline("06_mocks_and_http_stubs")[1].relatedGuidelines = <<"01_describe_and_naming", "gone">>
    /\ lastResponse.examples = <<"ex1">>
    /\ lastResponse.related = <<"01_describe_and_naming">>
    /\ ~MapHas(examples, "ex9")
    /\ ~MapHas(guidelines, "gone")

\* ---- C23: after initialization each of the five listed URIs is read with
\* success, and the total reported for guidelines, examples, anti-patterns
\* and configurations is the number of records of that dataset; a URI that is
\* none of the five and has neither the guidelines/ nor the examples/ prefix
\* raises 'Unknown resource URI'.
ListedResources ==
    {"guidelines", "examples", "antipatterns", "configurations", "cheatsheet"}

DatasetOf(base) ==
    CASE base = "guidelines"     -> guidelines
      [] base = "examples"       -> examples
      [] base = "antipatterns"   -> antiPatterns
      [] base = "configurations" -> configurations
      [] OTHER                   -> <<>>

C23_ResourcesReadable ==
    lastRequest.op = "read" =>
        /\ (lastRequest.param = <<>> /\ lastRequest.arg \in ListedResources) =>
              /\ initialized
              /\ lastResponse.status = "result"
              /\ lastRequest.arg # "cheatsheet" =>
                    Len(lastResponse.ids) = Len(DatasetOf(lastRequest.arg))
        /\ (\/ lastRequest.param = <<>> /\ lastRequest.arg \notin ListedResources
            \/ lastRequest.param # <<>>
                 /\ lastRequest.arg \notin {"guidelines", "examples"}) =>
              lastResponse = Raised("Unknown resource URI")

C23_Witness ==
    /\ lastRequest.op = "read"
    /\ lastRequest.arg = "configurations"
    /\ lastRequest.param = <<>>
    /\ lastResponse.status = "result"
    /\ Len(lastResponse.ids) = 2
    /\ Len(guidelines) = 2

\* ---- C24: validate_spec_code runs all eight rules when checkAll is true,
\* which is its default, whatever specificChecks holds; when checkAll is
\* false it runs exactly the rules named in specificChecks, and no rule when
\* specificChecks is absent, so that there are no issues, the score is 100
\* and isValid is true.
IssuesOfRule(issues, name) == SelectSeq(issues, LAMBDA issue : issue.rule = name)

RanExactly(names) ==
    \A lines \in {splitLines(lastRequest.code)} :
        \A r \in Range(validationRules) :
            IssuesOfRule(lastResponse.issues, r) =
                IF r \in names THEN ruleCheck(r, lines) ELSE <<>>

C24_RulesRunAsSelected ==
    (lastRequest.op = "validate_spec_code" /\ lastResponse.status = "result") =>
        /\ lastRequest.checkAll \in {Absent, Given(TRUE)} =>
              RanExactly(Range(validationRules))
        /\ (lastRequest.checkAll = Given(FALSE) /\ lastRequest.specificChecks # Absent) =>
              RanExactly(Range(lastRequest.specificChecks[1]))
        /\ (lastRequest.checkAll = Given(FALSE) /\ lastRequest.specificChecks = Absent) =>
              /\ lastResponse.issues = <<>>
              /\ lastResponse.score = 100
              /\ lastResponse.isValid

\* a call that names four rules with checkAll left out reports an issue of a
\* rule it does not name
C24_Witness ==
    /\ lastRequest.op = "validate_spec_code"
    /\ lastResponse.status = "result"
    /\ lastRequest.checkAll = Absent
    /\ lastRequest.specificChecks # Absent
    /\ "should_syntax" \in Range(lastRequest.specificChecks[1])
    /\ \E i \in 1..Len(lastResponse.issues) : lastResponse.issues[i].rule = "factory_usage"
    /\ \E i \in 1..Len(lastResponse.issues) : lastResponse.issues[i].rule = "should_syntax"

\* ---- C28: the score is max(0, 100 - 20 * errors - 10 * warnings
\* - 5 * suggestions) and so always within 0..100; isValid is true exactly
\* when no issue has type 'error', whatever the score is.
C28_ScoreAndValidity ==
    (lastRequest.op = "validate_spec_code" /\ lastResponse.status = "result") =>
        LET errors == Cardinality({i \in 1..Len(lastResponse.issues) :
                                      lastResponse.issues[i].type = "error"})
            warnings == Cardinality({i \in 1..Len(lastResponse.issues) :
                                        lastResponse.issues[i].type = "warning"})
            suggestions == Cardinality({i \in 1..Len(lastResponse.issues) :
                                           lastResponse.issues[i].type = "suggestion"})
            raw == 100 - 20 * errors - 10 * warnings - 5 * suggestions
        IN  /\ lastResponse.score = (IF raw > 0 THEN raw ELSE 0)
            /\ lastResponse.score \in 0..100
            /\ lastResponse.isValid <=> (errors = 0)

\* a code without an error whose warnings and suggestions bring the score to 0
C28_Witness ==
    /\ lastRequest.op = "validate_spec_code"
    /\ lastResponse.status = "result"
    /\ lastResponse.isValid
    /\ lastResponse.score = 0
    /\ Len(lastResponse.issues) > 10

\* ---- C29: checkExpectationCount gives one 'expectation_count' warning for
\* each span that opens at a line whose trimmed text starts with 'it ' and
\* closes at the next line whose trimmed text is exactly 'end', when more
\* than one line strictly inside contains 'expect(' or 'is_expected'; the
\* warning carries the line number of the 'it ' line; a new 'it ' line before
\* the closing 'end' restarts the count without a warning, and a span that is
\* never closed gives no warning.
OpensSpan(line) == startsWith(trim(line), "it ")

ClosesSpan(line) == trim(line) = Str("end")

HoldsExpectation(line) == lineIncludes(line, "expect(") \/ lineIncludes(line, "is_expected")

\* the lines that open a span which is closed with more than one expectation
WarnedSpans(lines) ==
    {s \in 1..Len(lines) :
        /\ OpensSpan(lines[s])
        /\ \E e \in (s + 1)..Len(lines) :
              /\ ClosesSpan(lines[e])
              /\ \A k \in (s + 1)..(e - 1) :
                    ~OpensSpan(lines[k]) /\ ~ClosesSpan(lines[k])
              /\ Cardinality({k \in (s + 1)..(e - 1) : HoldsExpectation(lines[k])}) > 1}

C29_OneWarningPerSpan ==
    (lastRequest.op = "validate_spec_code" /\ lastResponse.status = "result"
     /\ lastRequest.checkAll = Given(FALSE)
     /\ lastRequest.specificChecks = Given(<<"expectation_count">>)) =>
        LET warned == WarnedSpans(splitLines(lastRequest.code))
        IN  /\ Len(lastResponse.issues) = Cardinality(warned)
            /\ \A i \in 1..Len(lastResponse.issues) :
                  /\ lastResponse.issues[i].type = "warning"
                  /\ lastResponse.issues[i].rule = "expectation_count"
                  /\ lastResponse.issues[i].line \in warned
            /\ \A i, j \in 1..Len(lastResponse.issues) :
                  i < j => lastResponse.issues[i].line < lastResponse.issues[j].line

\* an indented span of two expectations that is warned about, after a span
\* whose only expectation stands on its `it` line
C29_Witness ==
    /\ lastRequest.op = "validate_spec_code"
    /\ lastResponse.status = "result"
    /\ lastRequest.code = <<"it { expect(a).to b }", "  it 'a' do", "expect(a).to b",
                            "  is_expected.to c", "  end ">>
    /\ lastResponse.issues = <<Issue("warning", 2, "expectation_count")>>

\* a new `it` line restarts the count: one expectation before it and one
\* after it give no warning
C29_RestartWitness ==
    /\ lastRequest.op = "validate_spec_code"
    /\ lastResponse.status = "result"
    /\ lastRequest.code = <<"  it 'a' do", "expect(a).to b", "  it 'a' do",
                            "expect(a).to b", "  end ">>
    /\ lastResponse.issues = <<>>

\* ---- C25: when loading examples.json, antipatterns.json or
\* configurations.json fails at any point, part-way through its records
\* included, the dataset after initialization is exactly the built-in default
\* set: no record read before the failure remains.
C25_FailedSourceIsExactlyDefault ==
    pc[1] = "done" =>
        /\ ~SourceReadable(examplesSrc) => getAllExamples = defaultExamples
        /\ ~SourceReadable(antiPatternsSrc) => getAllAntiPatterns = defaultAntiPatterns
        /\ ~SourceReadable(configurationsSrc) => getAllConfigurations = defaultConfigurations

\* ---- C26: in every reachable state of a KnowledgeBase, initialized implies
\* that both search indices are built and that each holds exactly the values
\* of its map at that moment; so every record a search returns is returned
\* by getAll and by get on its id.
SearchTerms == {"naming", "Notes", "validation", "Mocks"}

C26_IndicesMirrorMaps ==
    initialized =>
        /\ guidelineSearchIndex.built
        /\ exampleSearchIndex.built
        /\ guidelineSearchIndex.docs = guidelines
        /\ exampleSearchIndex.docs = examples
        /\ \A t \in SearchTerms :
              /\ \A g \in Range(searchGuidelines(t, MaxLimit)) :
                    g \in Range(getAllGuidelines) /\ getGuideline(g.id) = <<g>>
              /\ \A e \in Range(searchExamples(t, MaxLimit)) :
                    e \in Range(getAllExamples) /\ getExample(e.id) = <<e>>

\* the flag is set while a second invocation is still loading, and a search
\* finds a guideline and an example
C26_Witness ==
    /\ initialized
    /\ \E c \in Calls : pc[c] \in InProgress
    /\ searchGuidelines("naming", MaxLimit) # <<>>
    /\ searchExamples("validation", MaxLimit) # <<>>

\* ---- C27: get_rspec_guidance called with a category renders only
\* guidelines of that category, at most three, in search-rank order, chosen
\* among the five best-ranked results for the topic; it returns the fallback
\* text exactly when none of those five has the category, even if a match
\* of that category is ranked lower.
\* the places, among the five best of the ranking, of the given category
BestOfCategory(ranked, category) ==
    {i \in 1..Len(ranked) : i <= 5 /\ ranked[i].category = category}

C27_CategoryAmongFiveBest ==
    (lastRequest.op = "get_rspec_guidance" /\ lastRequest.category \in Categories) =>
        \A ranked \in {searchGuidelines(lastRequest.arg, MaxLimit)} :
            \A best \in {BestOfCategory(ranked, lastRequest.category)} :
                /\ lastResponse.text = "No specific guidance found" <=> best = {}
                /\ best # {} =>
                      /\ lastResponse.text = "Better Specs Guidance"
                      /\ Len(lastResponse.ids) = (IF Cardinality(best) < 3
                                                  THEN Cardinality(best) ELSE 3)
                      /\ \A k \in 1..Len(lastResponse.ids) :
                            \E i \in best :
                                /\ lastResponse.ids[k] = ranked[i].id
                                /\ Cardinality({j \in best : j < i}) = k - 1

\* the fallback is returned although a sixth-ranked guideline has the category
C27_Witness ==
    /\ lastRequest = Request("get_rspec_guidance", "mocks", "naming", <<>>)
    /\ lastResponse.text = "No specific guidance found"
    /\ \E g \in Range(searchGuidelines("mocks", MaxLimit)) : g.category = "naming"

\* three guidelines are rendered of four of the category among the five best,
\* the ones that name the topic in their title before the others
C27_RankWitness ==
    /\ lastRequest = Request("get_rspec_guidance", "mocks", "mocking", <<>>)
    /\ lastResponse.text = "Better Specs Guidance"
    /\ lastResponse.ids = <<"g2", "g6", "g1">>

\* ---- C30: when reading or parsing one guideline document fails while the
\* directory is loaded, the guidelines loaded before it stay in the store, no
\* document after it is loaded, no default guideline is added, and
\* initialize() still completes with the other three datasets loaded.
C30_BrokenDocumentEndsLoading ==
    \A md \in {markdownFiles(dirSrc.files)} :
        \A broken \in {{i \in 1..Len(md) : ~md[i].readable}} :
            (dirSrc.kind = "ok" /\ broken # {}) =>
                /\ pc[1] \notin {"start", "loadGuidelines", "readFile"} =>
                      guidelines = [i \in 1..(Least(broken) - 1) |-> guidelineOf(md[i])]
                /\ pc[1] = "thrown" => fuseError # "none"
                /\ pc[1] = "done" =>
                      /\ initialized
                      /\ guidelineSearchIndex.docs = guidelines
                      /\ SourceReadable(examplesSrc) => examples = examplesSrc.elems
                      /\ SourceReadable(antiPatternsSrc) => antiPatterns = antiPatternsSrc.elems
                      /\ SourceReadable(configurationsSrc) =>
                            configurations = configurationsSrc.elems

\* the document before the broken one is kept
C30_Witness ==
    /\ pc[1] = "done"
    /\ initialized
    /\ dirSrc.kind = "ok"
    /\ dirSrc.files = <<FileDescribe, FileBroken>>
    /\ Ids(guidelines) = <<"01_describe_and_naming">>
    /\ SourceReadable(examplesSrc)
    /\ examples # <<>>

\* the document after the broken one is not loaded
C30_AfterWitness ==
    /\ pc[1] = "done"
    /\ dirSrc.kind = "ok"
    /\ dirSrc.files = <<FileBroken, FileMocks>>
    /\ guidelines = <<>>
====
